---- MODULE Spec2Model ----
(***************************************************************************)
(* Excel-to-database importer: the three database adapters (sqlite, mysql, *)
(* postgres), the connection registry (database.js) and the import         *)
(* orchestrator (index.js processExcelFile).                               *)
(*                                                                         *)
(* JS strings are sequences of characters (so that "" is the empty         *)
(* sequence and truthiness is non-emptiness); JS objects are sequences of  *)
(* <<key, value>> pairs in insertion order with unique keys.               *)
(***************************************************************************)
EXTENDS Integers, Sequences, FiniteSets, TLC

(***************************************************************************)
(* Bounds                                                                  *)
(***************************************************************************)
\* number of adapter-level save calls made on one connection
MaxCalls == 2
\* sub-batch size of the mysql / postgres adapters (100 in the source,
\* scaled down so that a list of three records spans two sub-batches)
batchSize == 2
\* number of registry calls made one after the other
MaxOps == 4
\* largest options.chunkSize of an import
MaxChunk == 3

\* data rows of a sheet
MaxRows == 3

\* rows per window of the streaming read
MaxWindow == 2

\* fields of a person object given to normalizePersonFields
MaxFields == 3

\* rows stored in the people relation when the file is opened
MaxStored == 1

\* initializeDatabase calls on one file
MaxInits == 2

\* connection objects made by the postgres initializeDatabase
MaxConns == 3

\* largest config.poolSize
MaxPool == 2

\* callers of getConnection that do not await one another
MaxCallers == 2

(***************************************************************************)
(* Strings and objects                                                     *)
(***************************************************************************)
EmptyStr == <<>>

Has(o, k) == \E j \in 1..Len(o) : o[j][1] = k

Get(o, k) == o[CHOOSE j \in 1..Len(o) : o[j][1] = k][2]

Keys(o) == {o[j][1] : j \in 1..Len(o)}

\* JS truthiness of o[k] for string-valued fields: defined and not ''
Truthy(o, k) == Has(o, k) /\ Get(o, k) # EmptyStr

\* the JS expression  o[k] || ''
OrEmpty(o, k) == IF Truthy(o, k) THEN Get(o, k) ELSE EmptyStr

Range(s) == {s[j] : j \in 1..Len(s)}

IsPrefix(s, t) == Len(s) <= Len(t) /\ SubSeq(t, 1, Len(s)) = s

(***************************************************************************)
(* Sample person records                                                   *)
(***************************************************************************)
Person ==
    [full |->
        << <<"external_id", <<"a">> >>, <<"last_name", <<"b">> >>, <<"first_name", <<"a">> >>, <<"birth_date", <<"a">> >>, <<"status", <<"a">> >>, <<"name", <<"b", " ", "a">> >> >>,
     custom |->
        << <<"external_id", <<"b">> >>, <<"custom_field1", <<"a">> >>, <<"custom_field2", <<"b">> >> >>,
     status |->
        << <<"status", <<"a">> >> >>,
     birth |->
        << <<"birth_date", <<"b">> >> >>,
     firstOnly |->
        << <<"first_name", <<"a">> >>, <<"status", <<"b">> >> >>,
     names |->
        << <<"first_name", <<"a">> >>, <<"last_name", <<"b">> >> >>,
     emptyId |->
        << <<"external_id", EmptyStr>>, <<"last_name", <<"b">> >>, <<"first_name", EmptyStr>>, <<"custom_field1", <<"a">> >> >>,
     plain |->
        << <<"external_id", <<"a">> >> >>,
     alias |->
        << <<"ID", <<"b">> >>, <<"First Name", <<"a">> >>, <<"Last Name", <<"b">> >> >>,
     nameOnly |->
        << <<"name", <<"b", " ", "a">> >>, <<"status", <<"a">> >> >>]

PeopleLists ==
    { <<>>,
      <<Person.status>>,
      <<Person.full, Person.status>>,
      <<Person.custom, Person.firstOnly, Person.names>>,
      <<Person.birth, Person.emptyId>>,
      <<Person.plain, Person.full, Person.names>>,
      <<Person.status, Person.emptyId, Person.firstOnly>> }

(***************************************************************************)
(* State                                                                   *)
(***************************************************************************)
VARIABLES
    sv,        \* frame of the adapter-level saveToDatabase call
    table,     \* committed rows of the people relation
    txn,       \* transaction state of the engine connection
    stmts,     \* statements the current save call has issued, in order
    history,   \* summaries of the finished save calls
    activeConnections, \* the registry: connection id -> connection object
    handles,   \* the engine handles made by initializeDatabase, in order
    initCount, \* number of initializeDatabase invocations so far
    rc,        \* frame of the registry call in progress
    nops,      \* number of registry calls made by the caller
    imp,       \* frame of processExcelFile
    px,        \* frame of parseExcel
    nz,        \* frame of a caller of normalizePersonFields or of the registry-level saveToDatabase
    sqliteFile, \* the people relation of the SQLite database file
    si,        \* frame of the sqlite adapter's initializeDatabase
    pools,     \* the postgres adapter's pools: connection string -> pool
    conns,     \* the connection objects the postgres initializeDatabase has returned
    pgLast,    \* the last call of the postgres initializeDatabase or closeDatabase, or of the mysql initializeDatabase
    gc         \* frames of getConnection calls made without awaiting one another

saveVars == <<sv, table, txn, stmts, history>>

regVars == <<activeConnections, handles, initCount, rc, nops>>

impVars == <<imp>>

parseVars == <<px>>

otherVars == <<nz, sqliteFile, si, pools, conns, pgLast, gc>>

vars == <<sv, table, txn, stmts, history, activeConnections, handles, initCount, rc, nops, imp, px, nz, sqliteFile, si, pools, conns, pgLast, gc>>

AdapterTypes == {"sqlite", "mysql", "postgres"}

(***************************************************************************)
(* Adapter save: the per-record part shared by the three adapters          *)
(***************************************************************************)
CoreFields == {"external_id", "first_name", "last_name", "birth_date", "status"}

\* variant: a record is kept as soon as it carries either name part
SkipsRecordEitherName(person) ==
    /\ ~Truthy(person, "birth_date")
    /\ ~Truthy(person, "external_id")
    /\ ~(Truthy(person, "first_name") \/ Truthy(person, "last_name"))

\* if (!birth_date && !external_id && !(first_name && last_name)) return;
SkipsRecord(person) ==
    /\ ~Truthy(person, "birth_date")
    /\ ~Truthy(person, "external_id")
    /\ ~(Truthy(person, "first_name") /\ Truthy(person, "last_name"))

\* const { external_id, ..., status, ...additionalData } = person
AdditionalData(person) == SelectSeq(person, LAMBDA p : p[1] \notin CoreFields)

\* variant: the object is serialised even when it has no key
AdditionalDataJsonNeverNull(person) ==
    [null |-> FALSE, json |-> AdditionalData(person)]

\* Object.keys(additionalData).length > 0 ? JSON.stringify(additionalData) : null
AdditionalDataJson(person) ==
    IF Len(AdditionalData(person)) > 0
    THEN [null |-> FALSE, json |-> AdditionalData(person)]
    ELSE [null |-> TRUE, json |-> <<>>]

\* the bound parameters of the INSERT
InsertRow(person) ==
    [external_id |-> OrEmpty(person, "external_id"),
     first_name |-> OrEmpty(person, "first_name"),
     last_name |-> OrEmpty(person, "last_name"),
     birth_date |-> OrEmpty(person, "birth_date"),
     status |-> OrEmpty(person, "status"),
     additional_data |-> AdditionalDataJson(person)]

\* variant: no early return for an empty list
IsEmptyInputUnchecked(people) == FALSE

\* !Array.isArray(people) || people.length === 0
IsEmptyInput(people) == Len(people) = 0

(***************************************************************************)
(* The engine connection: what a statement does when it succeeds           *)
(***************************************************************************)
NoTxn == [active |-> FALSE, rows |-> <<>>]

\* INSERT inside the open transaction, or auto-committed when none is open
TxnAfterInsert(t, row) == IF t.active THEN [t EXCEPT !.rows = Append(@, row)] ELSE t

TableAfterInsert(tb, t, row) == IF t.active THEN tb ELSE Append(tb, row)

\* variant: a committed row replaces the stored rows with its external_id
TableAfterCommitUpsert(tb, t) ==
    SelectSeq(tb, LAMBDA r : \A j \in 1..Len(t.rows) : t.rows[j].external_id # r.external_id)
        \o t.rows

TableAfterCommit(tb, t) == tb \o t.rows

\* ROLLBACK: the code never observes its outcome (sqlite passes no callback,
\* the client adapters only log a failure); the rows of a transaction that
\* was not committed are not kept either way
TxnAfterRollback(t) == NoTxn

(***************************************************************************)
(* Call frames                                                             *)
(***************************************************************************)
IdleFrame ==
    [pc |-> "idle", type |-> "sqlite", people |-> <<>>, i |-> 1,
     inflight |-> {}, queue |-> <<>>, inserted |-> 0, errors |-> 0,
     outcome |-> "none", value |-> [inserted |-> 0], error |-> [message |-> "", cause |-> ""],
     attempted |-> {}, failed |-> {}, beginFailed |-> FALSE, commitFailed |-> FALSE,
     before |-> <<>>]

Stmt(op, idx) == [op |-> op, idx |-> idx]

\* variant: the sub-batch is everything from its first record on
NotSkippedToEnd(people, from, to) ==
    {j \in from..Len(people) : ~SkipsRecord(people[j])}

\* indexes of people[from..to] that pass the identifying-information check
NotSkipped(people, from, to) ==
    {j \in from..to : j <= Len(people) /\ ~SkipsRecord(people[j])}

\* the INSERT statements for the indexes of S, in input order
RECURSIVE InsertStmts(_, _)
InsertStmts(S, n) ==
    IF n = 0 THEN <<>>
    ELSE InsertStmts(S, n - 1) \o (IF n \in S THEN <<Stmt("INSERT", n)>> ELSE <<>>)

\* resolve({ inserted: 0 }) / return { inserted: 0 }
ResolveEmpty(s) ==
    [s EXCEPT !.pc = "done", !.outcome = "resolved", !.value = [inserted |-> 0]]

\* resolve({ inserted, errors }) / return { inserted, errors }
ResolveCounts(s) ==
    [s EXCEPT !.pc = "done", !.outcome = "resolved",
              !.value = [inserted |-> s.inserted, errors |-> s.errors]]

\* the success branch of one insert: inserted++
OnInsertOk(s, idx) == [s EXCEPT !.inserted = @ + 1]

\* variant: the first failed insert ends the call
OnInsertErrorAborts(s, idx) ==
    [s EXCEPT !.errors = @ + 1, !.failed = @ \cup {idx}, !.inflight = {},
              !.queue = <<[op |-> "ROLLBACK", idx |-> 0]>>,
              !.pc = IF s.type = "sqlite" THEN "running" ELSE "catch",
              !.outcome = IF s.type = "sqlite" THEN "rejected" ELSE @]

\* variant: the failure is logged but not counted
OnInsertErrorUncounted(s, idx) == [s EXCEPT !.failed = @ \cup {idx}]

\* the failure branch of one insert: log, errors++, go on with the others
OnInsertError(s, idx) == [s EXCEPT !.errors = @ + 1, !.failed = @ \cup {idx}]

SaveErrorMessage(type) ==
    CASE type = "mysql" -> "Failed to save to MySQL database"
      [] type = "postgres" -> "Failed to save to PostgreSQL database"
      [] OTHER -> "Failed to commit transaction"

\* the frame a save call starts from
NewFrame(type, people, tb) ==
    [IdleFrame EXCEPT !.pc = "entered", !.type = type, !.people = people, !.before = tb]

Summary(s, tb) ==
    [people |-> s.people, outcome |-> s.outcome, failed |-> s.failed,
     rows |-> SubSeq(tb, Len(s.before) + 1, Len(tb))]

(***************************************************************************)
(* sqlite saveToDatabase: everything is queued synchronously inside        *)
(* db.serialize, then the engine runs the queue in order                   *)
(***************************************************************************)
SqliteEnter(people, tb) ==
    LET s0 == NewFrame("sqlite", people, tb)
        S == NotSkipped(people, 1, Len(people))
    IN IF IsEmptyInput(people) THEN ResolveEmpty(s0)
       ELSE [s0 EXCEPT !.pc = "running", !.attempted = S,
                       !.queue = <<Stmt("BEGIN", 0)>> \o InsertStmts(S, Len(people))
                                   \o <<Stmt("COMMIT", 0)>>]

\* db.run('BEGIN TRANSACTION') has no callback: a failure is not observed
SqliteBegin ==
    /\ sv.type = "sqlite" /\ sv.pc = "running"
    /\ sv.queue # <<>> /\ Head(sv.queue).op = "BEGIN"
    /\ \E ok \in BOOLEAN :
          /\ txn' = IF ok THEN [active |-> TRUE, rows |-> <<>>] ELSE txn
          /\ sv' = [sv EXCEPT !.queue = Tail(@), !.beginFailed = ~ok]
    /\ UNCHANGED <<table, stmts, history>>
    /\ UNCHANGED <<regVars, impVars, parseVars, otherVars>>

\* stmt.run(..., function(err) { if (err) errors++ else inserted++ })
SqliteInsert ==
    /\ sv.type = "sqlite" /\ sv.pc = "running"
    /\ sv.queue # <<>> /\ Head(sv.queue).op = "INSERT"
    /\ LET idx == Head(sv.queue).idx
           row == InsertRow(sv.people[idx])
           s1 == [sv EXCEPT !.queue = Tail(@)]
       IN \E ok \in BOOLEAN :
             IF ok
             THEN /\ txn' = TxnAfterInsert(txn, row)
                  /\ table' = TableAfterInsert(table, txn, row)
                  /\ sv' = OnInsertOk(s1, idx)
             ELSE /\ UNCHANGED <<txn, table>>
                  /\ sv' = OnInsertError(s1, idx)
    /\ UNCHANGED <<stmts, history>>
    /\ UNCHANGED <<regVars, impVars, parseVars, otherVars>>

\* db.run('COMMIT', function(err) {...})
SqliteCommit ==
    /\ sv.type = "sqlite" /\ sv.pc = "running"
    /\ sv.queue # <<>> /\ Head(sv.queue).op = "COMMIT"
    /\ \E ok \in BOOLEAN :
          IF ok
          THEN /\ table' = TableAfterCommit(table, txn)
               /\ txn' = NoTxn
               /\ sv' = ResolveCounts([sv EXCEPT !.queue = <<>>])
               /\ stmts' = stmts
               /\ history' = Append(history, Summary(sv', table'))
          ELSE /\ sv' = [sv EXCEPT !.queue = <<Stmt("ROLLBACK", 0)>>,
                                   !.commitFailed = TRUE,
                                   !.outcome = "rejected",
                                   !.error = [message |-> SaveErrorMessage("sqlite"),
                                              cause |-> "commit_error"]]
               /\ stmts' = Append(stmts, Stmt("ROLLBACK", 0))
               /\ UNCHANGED <<table, txn, history>>
    /\ UNCHANGED <<regVars, impVars, parseVars, otherVars>>

\* the db.run('ROLLBACK') issued by the COMMIT callback, no callback of its own
SqliteRollback ==
    /\ sv.type = "sqlite" /\ sv.pc = "running"
    /\ sv.queue # <<>> /\ Head(sv.queue).op = "ROLLBACK"
    /\ txn' = TxnAfterRollback(txn)
    /\ sv' = [sv EXCEPT !.queue = <<>>, !.pc = "done"]
    /\ history' = Append(history, Summary(sv', table))
    /\ UNCHANGED <<table, stmts>>
    /\ UNCHANGED <<regVars, impVars, parseVars, otherVars>>

(***************************************************************************)
(* mysql / postgres saveToDatabase (the two functions are the same code)   *)
(***************************************************************************)
ClientEnter(type, people, tb) ==
    LET s0 == NewFrame(type, people, tb)
    IN IF IsEmptyInput(people) THEN ResolveEmpty(s0) ELSE [s0 EXCEPT !.pc = "begin"]

\* await client.query('BEGIN') / await connection.beginTransaction()
ClientBegin ==
    /\ sv.type \in {"mysql", "postgres"} /\ sv.pc = "begin"
    /\ \E ok \in BOOLEAN :
          IF ok
          THEN /\ txn' = [active |-> TRUE, rows |-> <<>>]
               /\ sv' = [sv EXCEPT !.pc = "batch", !.i = 1]
          ELSE /\ txn' = txn
               /\ sv' = [sv EXCEPT !.pc = "catch", !.beginFailed = TRUE,
                                   !.error = [message |-> SaveErrorMessage(sv.type),
                                              cause |-> "begin_error"]]
    /\ UNCHANGED <<table, stmts, history>>
    /\ UNCHANGED <<regVars, impVars, parseVars, otherVars>>

\* for (i = 0; i < people.length; i += batchSize): batch.map(async person => ...)
\* runs every callback up to its await, so the inserts of the sub-batch are
\* all issued before any of them completes
ClientIssueBatch ==
    /\ sv.type \in {"mysql", "postgres"} /\ sv.pc = "batch"
    /\ sv.i <= Len(sv.people)
    /\ LET S == NotSkipped(sv.people, sv.i, sv.i + batchSize - 1)
       IN /\ stmts' = stmts \o InsertStmts(S, Len(sv.people))
          /\ sv' = [sv EXCEPT !.attempted = @ \cup S, !.inflight = S,
                              !.pc = IF S = {} THEN "batch" ELSE "await",
                              !.i = IF S = {} THEN @ + batchSize ELSE @]
    /\ UNCHANGED <<table, txn, history>>
    /\ UNCHANGED <<regVars, impVars, parseVars, otherVars>>

\* one insert of the sub-batch completes; await Promise.all(promises) resumes
\* the loop once the last one has
ClientInsertDone ==
    /\ sv.type \in {"mysql", "postgres"} /\ sv.pc = "await"
    /\ \E idx \in sv.inflight :
          LET row == InsertRow(sv.people[idx])
              last == sv.inflight = {idx}
              s1 == [sv EXCEPT !.inflight = @ \ {idx},
                               !.pc = IF last THEN "batch" ELSE @,
                               !.i = IF last THEN @ + batchSize ELSE @]
          IN \E ok \in BOOLEAN :
                IF ok
                THEN /\ txn' = TxnAfterInsert(txn, row)
                     /\ table' = TableAfterInsert(table, txn, row)
                     /\ sv' = OnInsertOk(s1, idx)
                ELSE /\ UNCHANGED <<txn, table>>
                     /\ sv' = OnInsertError(s1, idx)
    /\ UNCHANGED <<stmts, history>>
    /\ UNCHANGED <<regVars, impVars, parseVars, otherVars>>

\* await client.query('COMMIT') / await connection.commit()
ClientCommit ==
    /\ sv.type \in {"mysql", "postgres"} /\ sv.pc = "batch"
    /\ sv.i > Len(sv.people)
    /\ stmts' = Append(stmts, Stmt("COMMIT", 0))
    /\ \E ok \in BOOLEAN :
          IF ok
          THEN /\ table' = TableAfterCommit(table, txn)
               /\ txn' = NoTxn
               /\ sv' = ResolveCounts(sv)
               /\ history' = Append(history, Summary(sv', table'))
          ELSE /\ sv' = [sv EXCEPT !.pc = "catch", !.commitFailed = TRUE,
                                   !.error = [message |-> SaveErrorMessage(sv.type),
                                              cause |-> "commit_error"]]
               /\ UNCHANGED <<table, txn, history>>
    /\ UNCHANGED <<regVars, impVars, parseVars, otherVars>>

\* catch (error) { try { ROLLBACK } catch { log }; throw new Error(`Failed to
\* save to ... database: ${error.message}`) }
ClientCatch ==
    /\ sv.type \in {"mysql", "postgres"} /\ sv.pc = "catch"
    /\ stmts' = Append(stmts, Stmt("ROLLBACK", 0))
    /\ txn' = TxnAfterRollback(txn)
    /\ sv' = [sv EXCEPT !.pc = "done", !.outcome = "rejected"]
    /\ history' = Append(history, Summary(sv', table))
    /\ UNCHANGED table
    /\ UNCHANGED <<regVars, impVars, parseVars, otherVars>>

\* connectionObject.saveToDatabase: the save of the connection's adapter
AdapterEnter(type, people, tb) ==
    IF type = "sqlite" THEN SqliteEnter(people, tb) ELSE ClientEnter(type, people, tb)

\* the statements issued before the call first yields
IssuedOnEnter(s) ==
    IF s.pc = "running" THEN s.queue
    ELSE IF s.pc = "begin" THEN <<Stmt("BEGIN", 0)>> ELSE <<>>

(***************************************************************************)
(* database.js: the connection registry                                    *)
(***************************************************************************)
ConnIds == {"default", "x"}

\* process.env.DB_TYPE, unset
EnvDbType == ""

ToLowerCase(t) ==
    IF t = "MySQL" THEN "mysql" ELSE IF t = "Postgres" THEN "postgres" ELSE t

\* switch (dbType?.toLowerCase())
getAdapter(dbType) ==
    CASE ToLowerCase(dbType) = "mysql" -> "mysql"
      [] ToLowerCase(dbType) \in {"postgres", "postgresql"} -> "postgres"
      [] OTHER -> "sqlite"

\* options.type || process.env.DB_TYPE || 'sqlite'
DbTypeOf(optType) ==
    IF optType # "" THEN optType ELSE IF EnvDbType # "" THEN EnvDbType ELSE "sqlite"

\* the kind of argument getConnection hands to adapter.initializeDatabase
InitArg(dbType) ==
    IF dbType = "mysql" THEN "mysql_config"
    ELSE IF dbType = "postgres" \/ dbType = "postgresql" THEN "postgres_config"
    ELSE "path"

NoObj == [connection |-> 0, type |-> "", adapter |-> ""]

EmptyReg == [i \in {} |-> NoObj]

RegSet(reg, id, obj) == [i \in DOMAIN reg \cup {id} |-> IF i = id THEN obj ELSE reg[i]]

RegDelete(reg, id) == [i \in DOMAIN reg \ {id} |-> reg[i]]

IdleRc ==
    [op |-> "none", pc |-> "idle", id |-> "default", type |-> "", force |-> FALSE,
     ret |-> "none", obj |-> NoObj, hit |-> FALSE, initsBefore |-> 0,
     adapter |-> "", arg |-> "", pending |-> {}, invoked |-> {}, failed |-> {},
     cached |-> EmptyReg, forcePassed |-> FALSE]

\* variant: an entry is reused only for the backend type it was made with
HasConnectionOfType(reg, id, optType) ==
    id \in DOMAIN reg /\ reg[id].type = DbTypeOf(optType)

\* activeConnections.has(connectionId)
HasConnection(reg, id, optType) == id \in DOMAIN reg

\* getConnection up to its first await
GetEnter(reg, n, id, optType) ==
    LET r0 == [IdleRc EXCEPT !.op = "get", !.id = id, !.type = DbTypeOf(optType),
                             !.initsBefore = n,
                             !.cached = reg]
    IN IF HasConnection(reg, id, optType)
       THEN [r0 EXCEPT !.pc = "done", !.ret = "returned", !.obj = reg[id], !.hit = TRUE]
       ELSE [r0 EXCEPT !.pc = "init", !.adapter = getAdapter(DbTypeOf(optType)),
                       !.arg = InitArg(DbTypeOf(optType))]

\* variant: the entry is stored whether initializeDatabase resolved or not
RegAfterInitAlways(reg, id, obj, ok) == RegSet(reg, id, obj)

\* the registry after the awaited initializeDatabase has settled:
\* activeConnections.set runs only when the await did not throw
RegAfterInit(reg, id, obj, ok) == IF ok THEN RegSet(reg, id, obj) ELSE reg

\* adapter.initializeDatabase resolves: wrap, cache and return the connection;
\* or rejects: getConnection throws and caches nothing
GetInitDone ==
    /\ rc.op = "get" /\ rc.pc = "init"
    /\ \E ok \in BOOLEAN :
          LET obj == [connection |-> Len(handles) + 1, type |-> rc.type,
                      adapter |-> rc.adapter]
          IN /\ activeConnections' = RegAfterInit(activeConnections, rc.id, obj, ok)
             /\ IF ok
                THEN /\ handles' = Append(handles, [adapter |-> rc.adapter, state |-> "open"])
                     /\ rc' = [rc EXCEPT !.pc = "done", !.ret = "returned", !.obj = obj]
                ELSE /\ rc' = [rc EXCEPT !.pc = "done", !.ret = "threw"]
                     /\ UNCHANGED handles
    /\ UNCHANGED <<initCount, nops, saveVars, impVars, parseVars, otherVars>>

\* closeDatabase of the postgres adapter catches every failure; those of the
\* sqlite and mysql adapters reject
CloseCanReject(adapter) == adapter \in {"sqlite", "mysql"}

\* closeConnection up to its await: adapter.closeDatabase(connection,
\* forceClose) for the types 'postgres' and 'postgresql', connectionObject
\* .close(), which passes no flag, for the others
CloseEnter(reg, id, force) ==
    LET r0 == [IdleRc EXCEPT !.op = "close", !.id = id, !.force = force,
                             !.cached = reg]
    IN IF id \in DOMAIN reg
       THEN [r0 EXCEPT !.pc = "closing", !.hit = TRUE, !.obj = reg[id],
                       !.adapter = reg[id].adapter,
                       !.invoked = {reg[id].connection},
                       !.forcePassed = force /\ reg[id].type \in {"postgres", "postgresql"}]
       ELSE [r0 EXCEPT !.pc = "done", !.ret = "returned"]

HandlesAfterClose(hs, h, ok) ==
    IF ok THEN [hs EXCEPT ![h].state = "closed"] ELSE hs

\* the registry after the awaited close of closeConnection has settled:
\* activeConnections.delete runs only when the await did not throw
RegAfterClose(reg, id, rejected) == IF rejected THEN reg ELSE RegDelete(reg, id)

CloseDone ==
    /\ rc.op = "close" /\ rc.pc = "closing"
    /\ \E ok \in BOOLEAN :
          LET rejected == ~ok /\ CloseCanReject(rc.adapter)
          IN /\ handles' = HandlesAfterClose(handles, rc.obj.connection, ok)
             /\ activeConnections' = RegAfterClose(activeConnections, rc.id, rejected)
             /\ rc' = [rc EXCEPT !.pc = "done",
                                 !.ret = IF rejected THEN "threw" ELSE "returned",
                                 !.failed = IF ok THEN {} ELSE {rc.id}]
    /\ UNCHANGED <<initCount, nops, saveVars, impVars, parseVars, otherVars>>

\* closeAllConnections up to await Promise.allSettled(closePromises): the
\* close routine of every entry has been invoked
CloseAllEnter(reg, force) ==
    [IdleRc EXCEPT !.op = "closeAll", !.force = force, !.pc = "awaitAll",
                   !.pending = DOMAIN reg,
                   !.invoked = {reg[i].connection : i \in DOMAIN reg},
                   !.cached = reg]

\* variant: the first rejected close ends the call (Promise.all, no .catch)
CloseAllSettledFailFast(r, id, ok) ==
    IF ok THEN [r EXCEPT !.pending = @ \ {id}]
    ELSE [r EXCEPT !.failed = @ \cup {id}, !.pc = "done", !.ret = "threw"]

\* one close promise settles; its .catch logs a rejection
CloseAllSettled(r, id, ok) ==
    [r EXCEPT !.pending = @ \ {id}, !.failed = IF ok THEN @ ELSE @ \cup {id}]

CloseAllSettle ==
    /\ rc.op = "closeAll" /\ rc.pc = "awaitAll"
    /\ \E id \in rc.pending : \E ok \in BOOLEAN :
          /\ handles' = HandlesAfterClose(handles, activeConnections[id].connection, ok)
          /\ rc' = CloseAllSettled(rc, id, ok)
    /\ UNCHANGED <<activeConnections, initCount, nops, saveVars, impVars, parseVars, otherVars>>

\* activeConnections.clear(), then the pool hooks (which find no pool list on
\* the driver modules and catch everything), then return
CloseAllFinish ==
    /\ rc.op = "closeAll" /\ rc.pc = "awaitAll" /\ rc.pending = {}
    /\ activeConnections' = EmptyReg
    /\ rc' = [rc EXCEPT !.pc = "done", !.ret = "returned"]
    /\ UNCHANGED <<handles, initCount, nops, saveVars, impVars, parseVars, otherVars>>

RegIdle == rc.pc \in {"idle", "done"}

RegGetConnection ==
    /\ RegIdle /\ nops < MaxOps
    /\ \E id \in ConnIds :
       \E t \in {"", "sqlite", "mysql", "postgres", "postgresql", "MySQL", "Postgres", "oracle"} :
          /\ rc' = GetEnter(activeConnections, initCount, id, t)
          /\ initCount' = IF rc'.pc = "init" THEN initCount + 1 ELSE initCount
    /\ nops' = nops + 1
    /\ UNCHANGED <<activeConnections, handles, saveVars, impVars, parseVars, otherVars>>

RegCloseConnection ==
    /\ RegIdle /\ nops < MaxOps
    /\ \E id \in ConnIds : \E force \in BOOLEAN :
          rc' = CloseEnter(activeConnections, id, force)
    /\ nops' = nops + 1
    /\ UNCHANGED <<activeConnections, handles, initCount, saveVars, impVars, parseVars, otherVars>>

RegCloseAllConnections ==
    /\ RegIdle /\ nops < MaxOps
    /\ \E force \in BOOLEAN : rc' = CloseAllEnter(activeConnections, force)
    /\ nops' = nops + 1
    /\ UNCHANGED <<activeConnections, handles, initCount, saveVars, impVars, parseVars, otherVars>>

(***************************************************************************)
(* database.js: normalizePersonFields and the registry-level               *)
(* saveToDatabase                                                          *)
(***************************************************************************)
\* normalized[k] = v on an object
ObjSet(o, k, v) ==
    IF Has(o, k) THEN [j \in 1..Len(o) |-> IF o[j][1] = k THEN <<k, v>> ELSE o[j]]
    ELSE Append(o, <<k, v>>)

\* delete normalized[k]
ObjDelete(o, k) == SelectSeq(o, LAMBDA q : q[1] # k)

RECURSIVE TrimStart(_)
TrimStart(str) ==
    IF str # <<>> /\ Head(str) = " " THEN TrimStart(Tail(str)) ELSE str

RECURSIVE TrimEnd(_)
TrimEnd(str) ==
    IF str # <<>> /\ str[Len(str)] = " " THEN TrimEnd(SubSeq(str, 1, Len(str) - 1)) ELSE str

\* String.prototype.trim
Trim(str) == TrimEnd(TrimStart(str))

\* the characters of str before its first space
RECURSIVE FirstToken(_)
FirstToken(str) ==
    IF str = <<>> \/ Head(str) = " " THEN <<>> ELSE <<Head(str)>> \o FirstToken(Tail(str))

\* str.split(/\s+/) for a trimmed str
RECURSIVE SplitSpaces(_)
SplitSpaces(str) ==
    LET tok == FirstToken(str)
        rest == SubSeq(str, Len(tok) + 1, Len(str))
    IN IF rest = <<>> THEN <<tok>> ELSE <<tok>> \o SplitSpaces(TrimStart(rest))

\* parts.join(' ')
RECURSIVE JoinSpace(_)
JoinSpace(parts) ==
    IF Len(parts) = 0 THEN <<>>
    ELSE IF Len(parts) = 1 THEN parts[1]
    ELSE parts[1] \o <<" ">> \o JoinSpace(Tail(parts))

\* variant: an alias that maps to another alias
fieldMappingsChained == << <<"ID", "Name">>, <<"Name", "name">> >>

fieldMappings ==
    << <<"id", "external_id">>, <<"ID", "external_id">>,
       <<"identifier", "external_id">>, <<"Identifier", "external_id">>,
       <<"External ID", "external_id">>, <<"External Id", "external_id">>,
       <<"EXTERNAL_ID", "external_id">>,
       <<"Name", "name">>, <<"NAME", "name">>,
       <<"First Name", "first_name">>, <<"FirstName", "first_name">>,
       <<"firstname", "first_name">>, <<"firstName", "first_name">>,
       <<"FIRST_NAME", "first_name">>, <<"prenom", "first_name">>,
       <<"Last Name", "last_name">>, <<"LastName", "last_name">>,
       <<"lastname", "last_name">>, <<"lastName", "last_name">>,
       <<"LAST_NAME", "last_name">>, <<"nom", "last_name">>,
       <<"Birth Date", "birth_date">>, <<"BirthDate", "birth_date">>,
       <<"birthdate", "birth_date">>, <<"birthDate", "birth_date">>,
       <<"BIRTH_DATE", "birth_date">>, <<"date_of_birth", "birth_date">>,
       <<"Date of Birth", "birth_date">>, <<"DOB", "birth_date">>,
       <<"Status", "status">>, <<"STATUS", "status">>, <<"statut", "status">> >>

\* what fieldMappings[key] finds for a key that is no entry of the table: the
\* properties an object literal inherits, here constructor, the Object
\* function, which as a property key reads as its source text
InheritedProperties == << <<"constructor", "function Object() { [native code] }">> >>

\* Object.entries(person).forEach: the first n entries applied to normalized
RECURSIVE ApplyMappings(_, _, _)
ApplyMappings(person, normalized, n) ==
    IF n = 0 THEN normalized
    ELSE LET prev == ApplyMappings(person, normalized, n - 1)
             key == person[n][1]
         IN IF Has(fieldMappings, key)
            THEN ObjDelete(ObjSet(prev, Get(fieldMappings, key), person[n][2]), key)
            ELSE IF Has(InheritedProperties, key)
            THEN ObjDelete(ObjSet(prev, Get(InheritedProperties, key), person[n][2]), key)
            ELSE prev

\* variant: the first token is taken as first_name, the rest as last_name
SplitNameGivenFirst(o) ==
    IF Truthy(o, "name") /\ (~Truthy(o, "first_name") \/ ~Truthy(o, "last_name"))
    THEN LET nameParts == SplitSpaces(Trim(Get(o, "name")))
             o1 == IF ~Truthy(o, "first_name")
                   THEN ObjSet(o, "first_name", nameParts[1]) ELSE o
         IN IF Len(nameParts) >= 2
            THEN IF ~Truthy(o, "last_name")
                 THEN ObjSet(o1, "last_name", JoinSpace(Tail(nameParts))) ELSE o1
            ELSE o
    ELSE o

\* if (normalized.name && (!normalized.first_name || !normalized.last_name))
SplitName(o) ==
    IF Truthy(o, "name") /\ (~Truthy(o, "first_name") \/ ~Truthy(o, "last_name"))
    THEN LET nameParts == SplitSpaces(Trim(Get(o, "name")))
             o1 == IF ~Truthy(o, "last_name")
                   THEN ObjSet(o, "last_name", nameParts[1]) ELSE o
         IN IF Len(nameParts) >= 2
            THEN IF ~Truthy(o, "first_name")
                 THEN ObjSet(o1, "first_name", JoinSpace(Tail(nameParts))) ELSE o1
            ELSE o
    ELSE o

\* if (!normalized.name && normalized.first_name && normalized.last_name)
JoinName(o) ==
    IF ~Truthy(o, "name") /\ Truthy(o, "first_name") /\ Truthy(o, "last_name")
    THEN ObjSet(o, "name", Trim(Get(o, "last_name") \o <<" ">> \o Get(o, "first_name")))
    ELSE o

normalizePersonFields(person) ==
    JoinName(SplitName(ApplyMappings(person, person, Len(person))))

\* people.map(normalizePersonFields)
normalizedPeople(people) == [j \in 1..Len(people) |-> normalizePersonFields(people[j])]

\* saveToDatabase(db, people) of database.js up to the adapter's first await
RegistrySaveEnter(db, people, tb) == AdapterEnter(db.adapter, normalizedPeople(people), tb)

(***************************************************************************)
(* index.js: processExcelFile                                              *)
(***************************************************************************)
\* what parseExcel yields for the file: a list of shaped records
ParsedFiles ==
    { <<>>,
      <<Person.full>>,
      <<Person.status, Person.full>>,
      <<Person.alias, Person.nameOnly, Person.status>>,
      <<Person.full, Person.custom, Person.status, Person.names>> }

\* people.slice(i, i + chunkSize), i counted from 1
Chunk(people, i, chunkSize) ==
    SubSeq(people, i, IF i + chunkSize - 1 < Len(people) THEN i + chunkSize - 1
                      ELSE Len(people))

\* the sum of a newly returned count and the running total; a result without
\* an errors count (undefined) leaves the total without one (undefined, NaN)
Totals(single, totals, result) ==
    IF single THEN result
    ELSE IF "errors" \in DOMAIN totals /\ "errors" \in DOMAIN result
    THEN [inserted |-> totals.inserted + result.inserted,
          errors |-> totals.errors + result.errors]
    ELSE [inserted |-> totals.inserted + result.inserted]

\* file sizes in bytes around 1 MB and 10 MB, and the options that bear on
\* the read strategy; a record without streamThreshold stands for options
\* that do not set it
ReadCases ==
    {[size |-> mb * 1024 * 1024 + d, options |-> o] :
        mb \in {1, 10}, d \in {0, 1},
        o \in {[useStreaming |-> FALSE], [useStreaming |-> TRUE],
               [useStreaming |-> FALSE, streamThreshold |-> 0],
               [useStreaming |-> FALSE, streamThreshold |-> 1]}}

\* options.useStreaming || fileSizeMB > streamThreshold, with
\* streamThreshold = options.streamThreshold || 10
UseStreaming(size, options) ==
    LET streamThreshold ==
          IF "streamThreshold" \in DOMAIN options /\ options.streamThreshold # 0
          THEN options.streamThreshold ELSE 10
    IN options.useStreaming \/ size > streamThreshold * 1024 * 1024

\* before processExcelFile is called, another caller of the registry gets a
\* connection and awaits it
OtherCallerGets ==
    /\ imp.pc = "idle" /\ rc.pc = "idle"
    /\ RegGetConnection

\* processExcelFile is called; statSync and parseExcel are under way
ImportFile ==
    /\ imp.pc = "idle" /\ RegIdle
    /\ \E parses \in BOOLEAN : \E people \in ParsedFiles : \E c \in 1..MaxChunk :
       \E id \in ConnIds : \E t \in {"", "mysql", "postgres"} : \E read \in ReadCases :
          imp' = [pc |-> "parse", parses |-> parses,
                  read |-> [size |-> read.size, options |-> read.options,
                            useStreaming |-> UseStreaming(read.size, read.options)],
                  people |-> IF parses THEN people ELSE <<>>,
                  chunkSize |-> c, connectionId |-> id, optType |-> t,
                  i |-> 1, single |-> TRUE,
                  totals |-> [inserted |-> 0, errors |-> 0],
                  db |-> NoObj, calls |-> <<>>, results |-> <<>>, outcome |-> "none",
                  value |-> [inserted |-> 0, errors |-> 0], error |-> "",
                  closes |-> 0]
    /\ UNCHANGED <<saveVars, regVars, parseVars, otherVars>>

\* variant: the catch block rethrows without closing
ImportCatchNoClose(error) ==
    /\ imp' = [imp EXCEPT !.pc = "done", !.outcome = "rejected", !.error = error]
    /\ rc' = rc

\* catch (error) { try { await closeConnection(options.connectionId) } ... }
ImportCatch(error) ==
    /\ imp' = [imp EXCEPT !.pc = "catchClose", !.error = error, !.closes = @ + 1]
    /\ rc' = CloseEnter(activeConnections, imp.connectionId, FALSE)

\* parseExcel settles; on success getConnection is called (the file size and
\* the read options are not used after this point and are dropped)
ImportParsed ==
    /\ imp.pc = "parse"
    /\ IF imp.parses
       THEN /\ imp' = [imp EXCEPT !.pc = "connect", !.read = [size |-> 0]]
            /\ rc' = GetEnter(activeConnections, initCount, imp.connectionId, imp.optType)
            /\ initCount' = IF rc'.pc = "init" THEN initCount + 1 ELSE initCount
       ELSE /\ ImportCatch("Failed to parse Excel file")
            /\ initCount' = initCount
    /\ UNCHANGED <<activeConnections, handles, nops, saveVars, parseVars, otherVars>>

\* getConnection settles; on success the first saveToDatabase call is made
ImportConnected ==
    /\ imp.pc = "connect" /\ rc.op = "get" /\ rc.pc = "done"
    /\ IF rc.ret = "returned"
       THEN LET single == Len(imp.people) <= imp.chunkSize
                chunk == IF single THEN imp.people ELSE Chunk(imp.people, 1, imp.chunkSize)
            IN /\ imp' = [imp EXCEPT !.pc = "save", !.single = single, !.i = 1,
                                     !.db = rc.obj, !.calls = Append(@, chunk)]
               /\ sv' = RegistrySaveEnter(rc.obj, chunk, table)
               /\ stmts' = IssuedOnEnter(sv')
               /\ history' = IF sv'.pc = "done" THEN Append(history, Summary(sv', table))
                             ELSE history
               /\ rc' = rc
       ELSE /\ ImportCatch("Failed to initialize database")
            /\ UNCHANGED <<sv, stmts, history>>
    /\ UNCHANGED <<activeConnections, handles, initCount, nops, table, txn, parseVars, otherVars>>

\* variant: the loop goes on as soon as the save call has been made
SaveSettledEarly(s) == s.pc # "idle"

\* await saveToDatabase(db, chunk): the call has settled
SaveSettled(s) == s.pc = "done"

\* a saveToDatabase call settles: add up, then save the next chunk or close
ImportSaved ==
    /\ imp.pc = "save" /\ SaveSettled(sv)
    /\ IF sv.outcome = "rejected"
       THEN /\ ImportCatch(sv.error.message)
            /\ UNCHANGED <<sv, stmts, history>>
       ELSE LET totals == Totals(imp.single, imp.totals, sv.value)
                next == imp.i + imp.chunkSize
            IN IF ~imp.single /\ next <= Len(imp.people)
               THEN LET chunk == Chunk(imp.people, next, imp.chunkSize)
                    IN /\ imp' = [imp EXCEPT !.totals = totals, !.i = next,
                                             !.calls = Append(@, chunk),
                                             !.results = Append(@, sv.value)]
                       /\ sv' = RegistrySaveEnter(imp.db, chunk, table)
                       /\ stmts' = IssuedOnEnter(sv')
                       /\ history' = IF sv'.pc = "done"
                                     THEN Append(history, Summary(sv', table))
                                     ELSE history
                       /\ rc' = rc
               ELSE /\ imp' = [imp EXCEPT !.pc = "close", !.totals = totals,
                                          !.results = Append(@, sv.value),
                                          !.closes = @ + 1]
                    /\ rc' = CloseEnter(activeConnections, imp.connectionId, FALSE)
                    /\ UNCHANGED <<sv, stmts, history>>
    /\ UNCHANGED <<activeConnections, handles, initCount, nops, table, txn, parseVars, otherVars>>

\* the closeConnection of the success path settles
ImportClosed ==
    /\ imp.pc = "close" /\ rc.op = "close" /\ rc.pc = "done"
    /\ IF rc.ret = "returned"
       THEN /\ imp' = [imp EXCEPT !.pc = "done", !.outcome = "resolved",
                                  !.value = imp.totals]
            /\ rc' = rc
       ELSE ImportCatch("Failed to close database connection")
    /\ UNCHANGED <<activeConnections, handles, initCount, nops, saveVars, parseVars, otherVars>>

\* variant: a failed close in the catch block replaces the error
CaughtErrorCloseWins(error, closeRet) ==
    IF closeRet = "threw" THEN "Failed to close database connection" ELSE error

\* catch (closeError) { logger.error(...) } throw error
CaughtError(error, closeRet) == error

\* the closeConnection of the catch block settles (a failure is only logged);
\* throw error
ImportCaught ==
    /\ imp.pc = "catchClose" /\ rc.op = "close" /\ rc.pc = "done"
    /\ imp' = [imp EXCEPT !.pc = "done", !.outcome = "rejected",
                          !.error = CaughtError(imp.error, rc.ret)]
    /\ UNCHANGED <<regVars, saveVars, parseVars, otherVars>>

(***************************************************************************)
(* excel-parser.js: cell values, header strings, HEADER_MAPPINGS           *)
(***************************************************************************)
\* the values sheet_to_json puts in a row; v is the text toString() gives
Undefined == [t |-> "undefined", v |-> <<>>]

Null == [t |-> "null", v |-> <<>>]

Str(chars) == [t |-> "string", v |-> chars]

Num(digits) == [t |-> "number", v |-> digits]

\* a function object (an inherited property of an object literal)
Fun == [t |-> "function", v |-> <<>>]

IsString(x) == x.t = "string"

\* truthiness of a value: a non-empty string, a number other than 0, an object
TruthyValue(x) ==
    CASE x.t = "string" -> x.v # <<>>
      [] x.t = "number" -> x.v # <<"0">>
      [] x.t = "function" -> TRUE
      [] OTHER -> FALSE

\* the canonical field names
Field ==
    [external_id |-> <<"e", "x", "t", "e", "r", "n", "a", "l", "_", "i", "d">>,
     last_name |-> <<"l", "a", "s", "t", "_", "n", "a", "m", "e">>,
     first_name |-> <<"f", "i", "r", "s", "t", "_", "n", "a", "m", "e">>,
     birth_date |-> <<"b", "i", "r", "t", "h", "_", "d", "a", "t", "e">>,
     name |-> <<"n", "a", "m", "e">>,
     email |-> <<"e", "m", "a", "i", "l">>,
     status |-> <<"s", "t", "a", "t", "u", "s">>]

\* the entries of HEADER_MAPPINGS the sheets below exercise
HEADER_MAPPINGS ==
    << <<<<"m", "a", "t", "r", "i", "c", "u", "l", "e">>, Field.external_id>>,
       <<<<"i", "d", "_", "f", "r">>, Field.external_id>>,
       <<<<"n", "o", "m">>, Field.last_name>>,
       <<<<"p", "r", "e", "n", "o", "m">>, Field.first_name>>,
       <<<<"d", "a", "t", "e", "d", "e", "n", "a", "i", "s", "s", "a", "n", "c", "e">>, Field.birth_date>>,
       <<<<"i", "d">>, Field.external_id>>,
       <<<<"n", "a", "m", "e">>, Field.name>>,
       <<<<"l", "a", "s", "t", " ", "n", "a", "m", "e">>, Field.last_name>>,
       <<<<"e", "m", "a", "i", "l">>, Field.email>>,
       <<<<"s", "t", "a", "t", "u", "s">>, Field.status>>,
       <<<<"I", "D">>, Field.external_id>>,
       <<<<"N", "a", "m", "e">>, Field.name>>,
       <<<<"S", "t", "a", "t", "u", "s">>, Field.status>>,
       <<<<"l", "a", "s", "t", "_", "n", "a", "m", "e">>, Field.last_name>>,
       <<<<"L", "a", "s", "t", " ", "N", "a", "m", "e">>, Field.last_name>>,
       <<<<"B", "i", "r", "t", "h", "D", "a", "t", "e">>, Field.birth_date>>,
       <<<<"D", "O", "B">>, Field.birth_date>> >>

\* property names every object literal inherits from Object.prototype
ObjectPrototypeKeys == {<<"c", "o", "n", "s", "t", "r", "u", "c", "t", "o", "r">>, <<"t", "o", "S", "t", "r", "i", "n", "g">>}

\* HEADER_MAPPINGS[header]: an own entry, else an inherited property, else
\* undefined
PropertyRead(o, k) ==
    IF Has(o, k) THEN Str(Get(o, k))
    ELSE IF k \in ObjectPrototypeKeys THEN Fun ELSE Undefined

\* header.toLowerCase()
LowerHeader(h) ==
    LET LowerChar(ch) ==
          CASE ch = "A" -> "a" [] ch = "B" -> "b" [] ch = "C" -> "c" [] ch = "D" -> "d" [] ch = "E" -> "e" [] ch = "F" -> "f"
            [] ch = "G" -> "g" [] ch = "H" -> "h" [] ch = "I" -> "i" [] ch = "J" -> "j" [] ch = "K" -> "k" [] ch = "L" -> "l"
            [] ch = "M" -> "m" [] ch = "N" -> "n" [] ch = "O" -> "o" [] ch = "P" -> "p" [] ch = "Q" -> "q" [] ch = "R" -> "r"
            [] ch = "S" -> "s" [] ch = "T" -> "t" [] ch = "U" -> "u" [] ch = "V" -> "v" [] ch = "W" -> "w" [] ch = "X" -> "x"
            [] ch = "Y" -> "y" [] ch = "Z" -> "z"
            [] OTHER -> ch
    IN [j \in 1..Len(h) |-> LowerChar(h[j])]

\* lowerHeader.replace(/\s+/g, '_'): every run of whitespace becomes one '_'
RECURSIVE ReplaceWhitespace(_)
ReplaceWhitespace(h) ==
    IF h = <<>> THEN <<>>
    ELSE IF Head(h) = " " THEN <<"_">> \o ReplaceWhitespace(TrimStart(h))
    ELSE <<Head(h)>> \o ReplaceWhitespace(Tail(h))

mapHeader(header) ==
    LET lowerHeader == LowerHeader(header)
        normalizedHeader == ReplaceWhitespace(lowerHeader)
    IN IF TruthyValue(PropertyRead(HEADER_MAPPINGS, header))
       THEN PropertyRead(HEADER_MAPPINGS, header)
       ELSE IF TruthyValue(PropertyRead(HEADER_MAPPINGS, lowerHeader))
       THEN PropertyRead(HEADER_MAPPINGS, lowerHeader)
       ELSE IF TruthyValue(PropertyRead(HEADER_MAPPINGS, normalizedHeader))
       THEN PropertyRead(HEADER_MAPPINGS, normalizedHeader)
       ELSE Str(normalizedHeader)

\* header ? header.toString().trim() : ''
originalHeaders(headerRow) ==
    [j \in 1..Len(headerRow) |->
        IF TruthyValue(headerRow[j]) THEN Trim(headerRow[j].v) ELSE <<>>]

mappedHeaders(headerRow) ==
    [j \in 1..Len(headerRow) |-> mapHeader(originalHeaders(headerRow)[j])]

\* mappedHeaders.includes(field)
Includes(mapped, field) == \E j \in 1..Len(mapped) : mapped[j] = Str(field)

\* mappedHeaders.indexOf(field), counted from 1; 0 when absent
IndexOf(mapped, field) ==
    IF Includes(mapped, field)
    THEN CHOOSE j \in 1..Len(mapped) :
            /\ mapped[j] = Str(field)
            /\ \A m \in 1..(j - 1) : mapped[m] # Str(field)
    ELSE 0

(***************************************************************************)
(* excel-parser.js: the row filter and the row mapping                     *)
(***************************************************************************)
\* the key String(header) a mapped header is stored under
FunctionSource == <<"function Object() { [native code] }">>

PropertyKey(header) == IF IsString(header) THEN header.v ELSE FunctionSource

\* hasName || (hasFirstName && hasLastName) || hasEmail || hasId
Identifies(mapped) ==
    \/ Includes(mapped, Field.name)
    \/ (Includes(mapped, Field.first_name) /\ Includes(mapped, Field.last_name))
    \/ Includes(mapped, Field.email)
    \/ Includes(mapped, Field.external_id)

\* variant: a row is kept when its first cell is filled
KeepsRowByFirstCell(row) ==
    Len(row) > 0 /\ row[1] # Undefined /\ row[1] # Null /\ row[1] # Str(<<>>)

\* row.length > 0 && row.some(cell => cell !== undefined && cell !== null && cell !== '')
KeepsRow(row) ==
    Len(row) > 0 /\ \E j \in 1..Len(row) :
                       row[j] # Undefined /\ row[j] # Null /\ row[j] # Str(<<>>)

\* row[index] !== undefined ? row[index].toString() : ''
CellText(cell) == IF cell # Undefined THEN cell.v ELSE <<>>

\* null.toString() raises a TypeError
CellThrows(cell) == cell = Null

\* mappedHeaders.forEach((header, index) => ...) up to the n-th header
RECURSIVE AssignCells(_, _, _)
AssignCells(mapped, row, n) ==
    IF n = 0 THEN <<>>
    ELSE LET person == AssignCells(mapped, row, n - 1)
         IN IF n <= Len(row) /\ TruthyValue(mapped[n])
            THEN ObjSet(person, PropertyKey(mapped[n]), CellText(row[n]))
            ELSE person

\* if (!person.name && person.first_name && person.last_name)
CombineName(person) ==
    IF ~Truthy(person, Field.name) /\ Truthy(person, Field.first_name) /\ Truthy(person, Field.last_name)
    THEN ObjSet(person, Field.name,
                Trim(Get(person, Field.last_name) \o <<" ">> \o Get(person, Field.first_name)))
    ELSE person

\* the recomputation of name from the first nom and prenom columns of the row
FrenchName(person, mapped, row) ==
    IF ~Includes(mapped, Field.name) /\ Includes(mapped, Field.first_name)
                                 /\ Includes(mapped, Field.last_name)
    THEN LET lastNameIndex == IndexOf(mapped, Field.last_name)
             firstNameIndex == IndexOf(mapped, Field.first_name)
         IN IF lastNameIndex <= Len(row) /\ firstNameIndex <= Len(row)
            THEN ObjSet(person, Field.name,
                        Trim(CellText(row[lastNameIndex]) \o <<" ">>
                                \o CellText(row[firstNameIndex])))
            ELSE person
    ELSE person

\* the callback of .map(row => ...)
ShapeRow(mapped, row) ==
    FrenchName(CombineName(AssignCells(mapped, row, Len(mapped))), mapped, row)

RowThrows(mapped, row) ==
    \E n \in 1..Len(mapped) :
        n <= Len(row) /\ TruthyValue(mapped[n]) /\ CellThrows(row[n])

\* rows.filter(...).map(...): the records, or the TypeError of a null cell
ShapeRows(mapped, rows) ==
    LET kept == SelectSeq(rows, KeepsRow)
    IN [threw |-> \E j \in 1..Len(kept) : RowThrows(mapped, kept[j]),
        people |-> [j \in 1..Len(kept) |-> ShapeRow(mapped, kept[j])]]

\* the messages of the errors parseExcel and parseExcelStreaming raise
Message ==
    [NotEnoughData |-> "Excel file does not contain enough data",
     NotEnoughInformation |-> "Excel file does not contain enough information to identify people",
     TypeErrorOfNull |-> "Cannot read properties of null (reading 'toString')",
     TypeErrorOfUndefined |-> "Cannot read properties of undefined (reading 'map')",
     FailedToParse |-> "Failed to parse Excel file: ",
     FailedToParseStreaming |-> "Failed to parse Excel file with streaming: "]

\* throw new Error(`Failed to parse Excel file: ${error.message}`)
Rejected(prefixes, message) ==
    [outcome |-> "rejected", people |-> <<>>, error |-> Append(prefixes, message)]

Resolved(people) == [outcome |-> "resolved", people |-> people, error |-> <<>>]

\* variant: only a sheet without any row is too short
TooFewRowsHeaderOnly(rawData) == Len(rawData) < 1

\* rawData.length < 2
TooFewRows(rawData) == Len(rawData) < 2

\* parseExcel without options.useStreaming
parseExcelFull(rawData) ==
    IF TooFewRows(rawData) THEN Rejected(<<Message.FailedToParse>>, Message.NotEnoughData)
    ELSE LET mapped == mappedHeaders(rawData[1])
             shaped == ShapeRows(mapped, Tail(rawData))
         IN IF ~Identifies(mapped)
            THEN Rejected(<<Message.FailedToParse>>, Message.NotEnoughInformation)
            ELSE IF shaped.threw THEN Rejected(<<Message.FailedToParse>>, Message.TypeErrorOfNull)
            ELSE Resolved(shaped.people)

(***************************************************************************)
(* excel-parser.js: parseExcel and parseExcelStreaming on one sheet        *)
(***************************************************************************)
\* header rows: the French test sheet, Name and Status, two columns mapped to
\* last_name, no identifying column, first_name without last_name, and a row
\* of a padded header of the third lookup stage, a numeric header cell, an
\* inherited property name, a missing header cell and an upper-case header,
\* a row of nom and prenom alone, and a row of lower-case and underscored
\* forms of listed headers
Headers ==
    [french |-> <<Str(<<"m", "a", "t", "r", "i", "c", "u", "l", "e">>), Str(<<"n", "o", "m">>), Str(<<"p", "r", "e", "n", "o", "m">>), Str(<<"d", "a", "t", "e", "d", "e", "n", "a", "i", "s", "s", "a", "n", "c", "e">>), Str(<<"s", "t", "a", "t", "u", "s">>)>>,
     nameStatus |-> <<Str(<<"N", "a", "m", "e">>), Str(<<"S", "t", "a", "t", "u", "s">>)>>,
     duplicate |-> <<Str(<<"n", "o", "m">>), Str(<<"p", "r", "e", "n", "o", "m">>), Str(<<"l", "a", "s", "t", " ", "n", "a", "m", "e">>)>>,
     unidentified |-> <<Str(<<"s", "t", "a", "t", "u", "s">>), Str(<<"x", " ", "y">>)>>,
     firstOnly |-> <<Str(<<"p", "r", "e", "n", "o", "m">>), Str(<<"t", "o", "S", "t", "r", "i", "n", "g">>)>>,
     odd |-> <<Str(<<" ", "I", "D", " ", " ", "F", "R", " ">>), Num(<<"0">>), Str(<<"c", "o", "n", "s", "t", "r", "u", "c", "t", "o", "r">>), Undefined, Str(<<"N", "O", "M">>)>>,
     names |-> <<Str(<<"n", "o", "m">>), Str(<<"p", "r", "e", "n", "o", "m">>)>>,
     variants |-> <<Str(<<"i", "d">>), Str(<<"l", "a", "s", "t", "_", "n", "a", "m", "e">>), Str(<<"d", "o", "b">>), Str(<<"b", "i", "r", "t", "h", "d", "a", "t", "e">>)>>]

\* data rows: the first row of the test sheet, a row of length 0, a row of ''
\* cells, a row of an undefined and a null cell, a row with a null cell next
\* to filled ones, a row of one numeric 0, a row of padded cells, and a row
\* whose first cell is empty and second filled
Rows ==
    [girard |-> <<Str(<<"F", "R", "S", "E", "2", "X", "8", "S">>), Str(<<"G", "i", "r", "a", "r", "d">>), Str(<<"D", "a", "v", "i", "d">>), Str(<<"1", "9", "8", "4", "-", "0", "9", "-", "2", "1">>), Str(<<"I", "n", "a", "c", "t", "i", "f">>)>>,
     empty |-> <<>>,
     blank |-> <<Str(<<>>), Str(<<>>), Str(<<>>)>>,
     holes |-> <<Undefined, Null>>,
     null |-> <<Str(<<"a">>), Null, Str(<<"b">>)>>,
     zero |-> <<Num(<<"0">>)>>,
     padded |-> <<Str(<<"a", " ">>), Str(<<" ", "b">>), Str(<<"c">>)>>,
     late |-> <<Str(<<>>), Str(<<"b">>)>>]

RECURSIVE RowLists(_)
RowLists(n) ==
    IF n = 0 THEN {<<>>}
    ELSE RowLists(n - 1) \cup {Append(rows, r) : rows \in RowLists(n - 1), r \in {Rows[k] : k \in DOMAIN Rows}}

\* the cell grid of the first sheet: no row at all, or a header row and up to
\* MaxRows data rows
Sheets == {<<>>} \cup {<<h>> \o rows : h \in {Headers[k] : k \in DOMAIN Headers}, rows \in RowLists(MaxRows)}

\* XLSX.readFile(filePath, {sheetRows: n}) then sheet_to_json: the first n rows
SheetRows(sheet, n) == SubSeq(sheet, 1, IF n < Len(sheet) THEN n ELSE Len(sheet))

\* variant: the slice keeps the row before startRow
SliceFromPrevious(rows, startRow) == SubSeq(rows, startRow, Len(rows))

\* chunkData.slice(startRow)
Slice(rows, startRow) == SubSeq(rows, startRow + 1, Len(rows))

\* parseExcel(filePath, options) is called
ParseExcel ==
    /\ px.pc = "idle"
    /\ \E sheet \in Sheets : \E useStreaming \in BOOLEAN : \E chunkSize \in 1..MaxWindow :
          /\ useStreaming \/ chunkSize = 1
          /\ px' = [pc |-> IF useStreaming THEN "headers" ELSE "full",
                    sheet |-> sheet, useStreaming |-> useStreaming,
                    chunkSize |-> chunkSize, mapped |-> <<>>, totalRows |-> 0,
                    startRow |-> 1, windows |-> <<>>,
                    result |-> Resolved(<<>>)]
    /\ UNCHANGED <<saveVars, regVars, impVars, otherVars>>

\* the whole sheet is read and shaped
ParseFull ==
    /\ px.pc = "full"
    /\ px' = [px EXCEPT !.pc = "done", !.result = parseExcelFull(px.sheet)]
    /\ UNCHANGED <<saveVars, regVars, impVars, otherVars>>

\* parseExcelStreaming: the header row is read and checked, the row count is
\* taken from the sheet dimension
StreamHeaders ==
    /\ px.pc = "headers"
    /\ LET headerRows == SheetRows(px.sheet, 1)
       IN IF headerRows = <<>>
          THEN px' = [px EXCEPT !.pc = "done",
                         !.result = Rejected(<<Message.FailedToParse, Message.FailedToParseStreaming>>,
                                             Message.TypeErrorOfUndefined)]
          ELSE LET mapped == mappedHeaders(headerRows[1])
               IN IF ~Identifies(mapped)
                  THEN px' = [px EXCEPT !.pc = "done",
                                 !.result = Rejected(<<Message.FailedToParse, Message.FailedToParseStreaming>>,
                                                     Message.NotEnoughInformation)]
                  ELSE px' = [px EXCEPT !.pc = "windows", !.mapped = mapped,
                                        !.totalRows = Len(px.sheet), !.startRow = 1]
    /\ UNCHANGED <<saveVars, regVars, impVars, otherVars>>

\* one turn of the loop: processChunk(startRow, endRow), people.push(...chunk)
StreamWindow ==
    /\ px.pc = "windows" /\ px.startRow < px.totalRows
    /\ LET endRow == IF px.startRow + px.chunkSize < px.totalRows
                     THEN px.startRow + px.chunkSize ELSE px.totalRows
           rowsToProcess == Slice(SheetRows(px.sheet, endRow), px.startRow)
           shaped == ShapeRows(px.mapped, rowsToProcess)
       IN IF shaped.threw
          THEN px' = [px EXCEPT !.pc = "done",
                         !.windows = Append(@, rowsToProcess),
                         !.result = Rejected(<<Message.FailedToParse, Message.FailedToParseStreaming>>,
                                             Message.TypeErrorOfNull)]
          ELSE px' = [px EXCEPT !.startRow = @ + px.chunkSize,
                         !.windows = Append(@, rowsToProcess),
                         !.result = Resolved(px.result.people \o shaped.people)]
    /\ UNCHANGED <<saveVars, regVars, impVars, otherVars>>

\* the loop ends: return people
StreamReturn ==
    /\ px.pc = "windows" /\ px.startRow >= px.totalRows
    /\ px' = [px EXCEPT !.pc = "done"]
    /\ UNCHANGED <<saveVars, regVars, impVars, otherVars>>

(***************************************************************************)
(* A caller invoking adapter.saveToDatabase(connection, people) on one     *)
(* open connection, one call after the other                               *)
(***************************************************************************)
CallSave ==
    /\ sv.pc \in {"idle", "done"}
    /\ Len(history) < MaxCalls
    /\ \E people \in PeopleLists :
          /\ sv' = AdapterEnter(sv.type, people, table)
          /\ stmts' = IssuedOnEnter(sv')
          /\ history' = IF sv'.pc = "done" THEN Append(history, Summary(sv', table))
                        ELSE history
    /\ UNCHANGED <<table, txn>>
    /\ UNCHANGED <<regVars, impVars, parseVars, otherVars>>

SaveStep ==
    \/ SqliteBegin \/ SqliteInsert \/ SqliteCommit \/ SqliteRollback
    \/ ClientBegin \/ ClientIssueBatch \/ ClientInsertDone \/ ClientCommit
    \/ ClientCatch

\* no people relation in the file
NoTable == [table |-> FALSE, columns |-> {}, rows |-> 0]

IdleSi == [pc |-> "idle", n |-> 0, before |-> NoTable, pending |-> {}, alters |-> {},
           outcome |-> "none", fault |-> FALSE, handle |-> "none"]

\* new Pool({ connectionString, max: config.poolSize || 10, ... })
NewPool(poolSize) == [max |-> poolSize, out |-> 0, ended |-> FALSE]

NoPgCall ==
    [op |-> "none", cs |-> "", force |-> FALSE, outcome |-> "none", fault |-> FALSE,
     reused |-> FALSE, poolBefore |-> NewPool(1), conn |-> 0]

\* the state after the modules are loaded, but for the frame of the save
\* call and the database file
InitVars ==
    /\ table = <<>> /\ txn = NoTxn /\ stmts = <<>> /\ history = <<>>
    /\ activeConnections = EmptyReg /\ handles = <<>> /\ initCount = 0
    /\ rc = IdleRc /\ nops = 0
    /\ imp = [pc |-> "idle"]
    /\ px = [pc |-> "idle"]
    /\ nz = [pc |-> "idle"]
    /\ si = IdleSi
    /\ pools = <<>> /\ conns = <<>> /\ pgLast = NoPgCall
    /\ gc = [c \in 1..MaxCallers |-> IdleRc]

InitSave ==
    /\ \E t \in AdapterTypes : sv = [IdleFrame EXCEPT !.type = t]
    /\ sqliteFile = NoTable /\ InitVars

NextSave == CallSave \/ SaveStep

SpecSave == InitSave /\ [][NextSave]_vars

(***************************************************************************)
(* A caller using the registry, one call after the other                   *)
(***************************************************************************)
InitRegistry ==
    /\ sv = IdleFrame
    /\ sqliteFile = NoTable /\ InitVars

NextRegistry ==
    \/ RegGetConnection \/ RegCloseConnection \/ RegCloseAllConnections
    \/ GetInitDone \/ CloseDone \/ CloseAllSettle \/ CloseAllFinish

SpecRegistry == InitRegistry /\ [][NextRegistry]_vars

(***************************************************************************)
(* One run of processExcelFile                                             *)
(***************************************************************************)
NextImport ==
    \/ OtherCallerGets
    \/ ImportFile \/ ImportParsed \/ ImportConnected \/ ImportSaved \/ ImportClosed
    \/ ImportCaught \/ SaveStep \/ GetInitDone \/ CloseDone

SpecImport == InitRegistry /\ [][NextImport]_vars

(***************************************************************************)
(* One call of parseExcel                                                  *)
(***************************************************************************)
NextParse == ParseExcel \/ ParseFull \/ StreamHeaders \/ StreamWindow \/ StreamReturn

SpecParse == InitRegistry /\ [][NextParse]_vars

(***************************************************************************)
(* A caller of normalizePersonFields, or of one registry-level             *)
(* saveToDatabase                                                          *)
(***************************************************************************)
\* person objects of at most n fields: alias keys, canonical keys, a key
\* without mapping and the name of an inherited property; values '', ' ',
\* a one-token and a three-token string
RECURSIVE Records(_)
Records(n) ==
    LET keys == {"ID", "Name", "name", "first_name", "last_name", "custom", "constructor"}
        values == {<<>>, <<" ">>, <<"b">>, <<"b", " ", " ", "a", " ", "c">>}
    IN IF n = 0 THEN {<<>>}
       ELSE Records(n - 1) \cup
            UNION {{Append(o, <<k, v>>) : k \in keys \ Keys(o), v \in values} :
                      o \in Records(n - 1)}

\* database.normalizePersonFields(person) is called
NormalizeCall ==
    /\ nz.pc = "idle" /\ sv.pc = "idle"
    /\ \E person \in Records(MaxFields) :
          nz' = [pc |-> "normalized", input |-> <<person>>, people |-> <<person>>,
                 normalized |-> <<normalizePersonFields(person)>>]
    /\ UNCHANGED <<saveVars, regVars, impVars, parseVars, sqliteFile, si, pools, conns, pgLast, gc>>

\* the function is called on what it returned
NormalizeAgain ==
    /\ nz.pc = "normalized"
    /\ nz' = [pc |-> "again", input |-> nz.input, people |-> nz.normalized,
              normalized |-> normalizedPeople(nz.normalized)]
    /\ UNCHANGED <<saveVars, regVars, impVars, parseVars, sqliteFile, si, pools, conns, pgLast, gc>>

\* database.saveToDatabase(db, people): every record is normalized, then the
\* adapter's saveToDatabase is called with the normalized list
RegistrySave ==
    /\ nz.pc = "idle" /\ sv.pc = "idle"
    /\ \E t \in AdapterTypes : \E people \in ParsedFiles :
          /\ nz' = [pc |-> "saved", input |-> people, people |-> people,
                    normalized |-> normalizedPeople(people)]
          /\ sv' = RegistrySaveEnter([adapter |-> t], people, table)
          /\ stmts' = IssuedOnEnter(sv')
          /\ history' = IF sv'.pc = "done" THEN Append(history, Summary(sv', table))
                        ELSE history
    /\ UNCHANGED <<table, txn, regVars, impVars, parseVars, sqliteFile, si, pools, conns, pgLast, gc>>

NextNormalize == NormalizeCall \/ NormalizeAgain \/ RegistrySave \/ SaveStep

SpecNormalize == InitRegistry /\ [][NextNormalize]_vars

(***************************************************************************)
(* sqlite-adapter.js: initializeDatabase on a database file                *)
(***************************************************************************)
requiredColumns ==
    {"external_id", "first_name", "last_name", "birth_date", "status", "created_at",
     "additional_data"}

\* ALTER TABLE people ADD COLUMN created_at TEXT DEFAULT CURRENT_TIMESTAMP:
\* SQLite refuses a non-constant default when the relation has rows
\* ("Cannot add a column with non-constant default")
EngineRefuses(file, column) == column = "created_at" /\ file.rows > 0

\* initializeDatabase(dbPath) up to the statements it issues: open the file,
\* look for the people relation, read its columns; the open can fail, and
\* once the file is open either query can
SqliteInitialize ==
    /\ si.pc \in {"idle", "done"} /\ si.n < MaxInits
    /\ \E fault \in {"none", "open", "query"} :
          LET s0 == [IdleSi EXCEPT !.n = si.n + 1, !.before = sqliteFile,
                                   !.handle = IF fault = "open" THEN "none" ELSE "open"]
              missingColumns == requiredColumns \ sqliteFile.columns
          IN IF fault # "none"
             THEN si' = [s0 EXCEPT !.pc = "done", !.outcome = "rejected", !.fault = TRUE]
             ELSE IF ~sqliteFile.table
             THEN si' = [s0 EXCEPT !.pc = "creating"]
             ELSE IF missingColumns = {}
             THEN si' = [s0 EXCEPT !.pc = "done", !.outcome = "resolved"]
             ELSE si' = [s0 EXCEPT !.pc = "altering", !.pending = missingColumns,
                                   !.alters = missingColumns]
    /\ UNCHANGED <<saveVars, regVars, impVars, parseVars, nz, sqliteFile, pools, conns, pgLast, gc>>

\* one of the ALTER TABLE statements completes; Promise.all rejects on the
\* first failure and resolves when all have succeeded, the other statements
\* run in either case
SqliteAddColumn ==
    /\ si.pc = "altering"
    /\ \E column \in si.pending : \E fault \in BOOLEAN :
          LET ok == ~fault /\ ~EngineRefuses(sqliteFile, column)
              last == si.pending = {column}
          IN /\ sqliteFile' = IF ok THEN [sqliteFile EXCEPT !.columns = @ \cup {column}]
                               ELSE sqliteFile
             /\ si' = [si EXCEPT !.pending = @ \ {column},
                                 !.fault = @ \/ fault,
                                 !.outcome = IF ~ok THEN "rejected"
                                             ELSE IF last /\ @ = "none" THEN "resolved"
                                             ELSE @,
                                 !.pc = IF last THEN "done" ELSE @]
    /\ UNCHANGED <<saveVars, regVars, impVars, parseVars, nz, pools, conns, pgLast, gc>>

\* CREATE TABLE IF NOT EXISTS people (...)
SqliteCreateTable ==
    /\ si.pc = "creating"
    /\ \E fault \in BOOLEAN :
          IF fault
          THEN /\ si' = [si EXCEPT !.pc = "done", !.outcome = "rejected", !.fault = TRUE]
               /\ sqliteFile' = sqliteFile
          ELSE /\ si' = [si EXCEPT !.pc = "done", !.outcome = "resolved"]
               /\ sqliteFile' = [table |-> TRUE, columns |-> {"id"} \cup requiredColumns,
                                 rows |-> 0]
    /\ UNCHANGED <<saveVars, regVars, impVars, parseVars, nz, pools, conns, pgLast, gc>>

\* the people relation the file holds when it is first opened: none, or one
\* with the id column, any of the required columns, possibly a column of its
\* own, and up to MaxStored rows
InitSchema ==
    /\ sv = IdleFrame /\ InitVars
    /\ sqliteFile \in
          {NoTable} \cup
          {[table |-> TRUE, columns |-> {"id"} \cup C \cup L, rows |-> r] :
              C \in SUBSET requiredColumns, L \in {{}, {"legacy"}}, r \in 0..MaxStored}

NextSchema == SqliteInitialize \/ SqliteAddColumn \/ SqliteCreateTable

SpecSchema == InitSchema /\ [][NextSchema]_vars

(***************************************************************************)
(* The postgres adapter: pools, initializeDatabase, closeDatabase          *)
(***************************************************************************)
\* pool.connect() gives a client when the pool has not been ended and fewer
\* than max clients are checked out; a client leaves the checked-out count by
\* client.release()
PoolConnects(pool) == ~pool.ended /\ pool.out < pool.max

\* pools.has(connectionString)
ReusesPool(map, connectionString) == connectionString \in DOMAIN map

\* initializeDatabase(config): pool lookup or creation, pool.connect(),
\* CREATE TABLE IF NOT EXISTS, return { client, pool }; on a failed CREATE the
\* client is released
PgInitialize ==
    /\ Len(conns) < MaxConns
    /\ \E cs \in {"a", "b"} : \E poolSize \in 1..MaxPool :
       \E connectFault \in BOOLEAN : \E createFault \in BOOLEAN :
          LET reused == ReusesPool(pools, cs)
              pool == IF reused THEN pools[cs] ELSE NewPool(poolSize)
              connected == PoolConnects(pool) /\ ~connectFault
              call == [NoPgCall EXCEPT !.op = "init", !.cs = cs, !.reused = reused,
                                       !.poolBefore = pool]
          IN /\ connectFault => PoolConnects(pool)
             /\ createFault => connected
             /\ IF connected /\ ~createFault
                THEN /\ pools' = RegSet(pools, cs, [pool EXCEPT !.out = @ + 1])
                     /\ conns' = Append(conns, [cs |-> cs, ended |-> FALSE, forced |-> FALSE])
                     /\ pgLast' = [call EXCEPT !.outcome = "resolved",
                                               !.conn = Len(conns) + 1]
                ELSE /\ pools' = RegSet(pools, cs, pool)
                     /\ conns' = conns
                     /\ pgLast' = [call EXCEPT !.outcome = "rejected",
                                               !.fault = connectFault \/ createFault]
    /\ UNCHANGED <<saveVars, regVars, impVars, parseVars, nz, sqliteFile, si, gc>>

\* closeDatabase(db, forceClose): db.client.end(), and db.pool.end() when
\* forceClose; errors are logged, the call does not reject
PgClose ==
    /\ \E j \in 1..Len(conns) : \E forceClose \in BOOLEAN :
          LET cs == conns[j].cs
          IN /\ conns' = [conns EXCEPT ![j].ended = TRUE, ![j].forced = @ \/ forceClose]
             /\ pools' = IF forceClose THEN [pools EXCEPT ![cs].ended = TRUE] ELSE pools
             /\ pgLast' = [NoPgCall EXCEPT !.op = "close", !.cs = cs, !.force = forceClose,
                                           !.outcome = "resolved",
                                           !.poolBefore = pools[cs], !.conn = j]
    /\ UNCHANGED <<saveVars, regVars, impVars, parseVars, nz, sqliteFile, si, gc>>

\* initializeDatabase(config) of the mysql adapter: mysql.createConnection,
\* then CREATE TABLE IF NOT EXISTS; either can fail, and the catch block
\* rethrows
MysqlInitialize ==
    /\ Len(handles) < MaxConns
    /\ \E fault \in {"none", "connect", "create"} :
          /\ handles' = IF fault = "connect" THEN handles
                        ELSE Append(handles, [adapter |-> "mysql", state |-> "open"])
          /\ pgLast' = [NoPgCall EXCEPT !.op = "mysqlInit",
                                        !.outcome = IF fault = "none" THEN "resolved"
                                                    ELSE "rejected",
                                        !.fault = fault # "none",
                                        !.conn = IF fault = "connect" THEN 0
                                                 ELSE Len(handles) + 1]
    /\ UNCHANGED <<saveVars, activeConnections, initCount, rc, nops, impVars, parseVars,
                   nz, sqliteFile, si, pools, conns, gc>>

NextPool == PgInitialize \/ PgClose \/ MysqlInitialize

SpecPool == InitRegistry /\ [][NextPool]_vars

(***************************************************************************)
(* database.js: getConnection calls that overlap                           *)
(***************************************************************************)
\* a caller calls getConnection(connectionId, options): the call runs up to
\* its first await
OverlapGet ==
    /\ \E c \in 1..MaxCallers : \E id \in ConnIds : \E t \in {"", "mysql", "postgres"} :
          /\ gc[c].pc = "idle"
          /\ gc' = [gc EXCEPT ![c] = GetEnter(activeConnections, initCount, id, t)]
          /\ initCount' = IF gc'[c].pc = "init" THEN initCount + 1 ELSE initCount
    /\ UNCHANGED <<activeConnections, handles, rc, nops, saveVars, impVars, parseVars,
                   nz, sqliteFile, si, pools, conns, pgLast>>

\* adapter.initializeDatabase of one of the calls settles: the connection is
\* wrapped, stored under the id and returned, or the call throws
OverlapInitDone ==
    /\ \E c \in 1..MaxCallers : \E ok \in BOOLEAN :
          /\ gc[c].pc = "init"
          /\ IF ok
             THEN LET obj == [connection |-> Len(handles) + 1, type |-> gc[c].type,
                              adapter |-> gc[c].adapter]
                  IN /\ handles' = Append(handles, [adapter |-> gc[c].adapter,
                                                    state |-> "open"])
                     /\ activeConnections' = RegSet(activeConnections, gc[c].id, obj)
                     /\ gc' = [gc EXCEPT ![c].pc = "done", ![c].ret = "returned",
                                         ![c].obj = obj]
             ELSE /\ gc' = [gc EXCEPT ![c].pc = "done", ![c].ret = "threw"]
                  /\ UNCHANGED <<handles, activeConnections>>
    /\ UNCHANGED <<initCount, rc, nops, saveVars, impVars, parseVars,
                   nz, sqliteFile, si, pools, conns, pgLast>>

NextOverlap == OverlapGet \/ OverlapInitDone

SpecOverlap == InitRegistry /\ [][NextOverlap]_vars

(***************************************************************************)
(* Properties of the adapter-level save                                    *)
(***************************************************************************)
Count(s, x) == Cardinality({j \in 1..Len(s) : s[j] = x})

SameBag(s, t) ==
    /\ Len(s) = Len(t)
    /\ \A x \in Range(s) \cup Range(t) : Count(s, x) = Count(t, x)

IsEmptyField(p, k) == ~Has(p, k) \/ Get(p, k) = EmptyStr

\* the record lacks the minimum identifying information
Ineligible(p) ==
    /\ IsEmptyField(p, "birth_date")
    /\ IsEmptyField(p, "external_id")
    /\ (IsEmptyField(p, "first_name") \/ IsEmptyField(p, "last_name"))

EligibleIdx(people) == {j \in 1..Len(people) : ~Ineligible(people[j])}

NewRows == SubSeq(table, Len(sv.before) + 1, Len(table))

Succeeded == sv.attempted \ sv.failed

\* the rows of the records of S, in input order
RECURSIVE RowsOf(_, _, _)
RowsOf(people, S, n) ==
    IF n = 0 THEN <<>>
    ELSE RowsOf(people, S, n - 1) \o (IF n \in S THEN <<InsertRow(people[n])>> ELSE <<>>)

SaveReturned == sv.pc = "done" /\ sv.outcome = "resolved" /\ Len(sv.people) > 0

C2_IneligibleSkipped ==
    /\ \A j \in sv.attempted : ~Ineligible(sv.people[j])
    /\ \A j \in 1..Len(stmts) :
          stmts[j].op = "INSERT" => ~Ineligible(sv.people[stmts[j].idx])
    /\ SaveReturned =>
          /\ sv.value.inserted + sv.value.errors = Cardinality(EligibleIdx(sv.people))
          /\ Len(NewRows) <= Cardinality(EligibleIdx(sv.people))
    /\ (/\ sv.pc = "done" /\ Len(sv.people) > 0
        /\ EligibleIdx(sv.people) = {}
        /\ ~sv.beginFailed /\ ~sv.commitFailed) =>
          /\ sv.outcome = "resolved"
          /\ sv.value = [inserted |-> 0, errors |-> 0]
          /\ table = sv.before

\* a returned save of three records, all of them skipped
C2_Witness ==
    /\ SaveReturned
    /\ Len(sv.people) = 3
    /\ \A j \in 1..Len(sv.people) : Ineligible(sv.people[j])
    /\ sv.value = [inserted |-> 0, errors |-> 0]

\* C3: save(connection, []) returns {inserted: 0} at once: no statement is
\* issued, no transaction is open and the stored rows are those before the call.
C3_EmptyInputNoop ==
    (sv.pc # "idle" /\ Len(sv.people) = 0) =>
        /\ sv.pc = "done"
        /\ sv.outcome = "resolved"
        /\ sv.value = [inserted |-> 0]
        /\ stmts = <<>>
        /\ txn = NoTxn
        /\ table = sv.before

\* an empty save made on a connection whose relation already holds rows
C3_Witness ==
    /\ sv.pc = "done" /\ Len(sv.people) = 0
    /\ Len(history) > 1
    /\ Len(table) > 0

\* C4: when BEGIN or COMMIT fails the save is rejected with an error that
\* wraps the message of the failed operation, and a save is rejected only then
\* (never because an insert failed).
C4_TxnFaultRaises ==
    sv.pc = "done" =>
        /\ sv.beginFailed => (sv.outcome = "rejected" /\ sv.error.cause = "begin_error")
        /\ (sv.commitFailed /\ ~sv.beginFailed) =>
              (sv.outcome = "rejected" /\ sv.error.cause = "commit_error")
        /\ sv.outcome = "rejected" => (sv.beginFailed \/ sv.commitFailed)

\* the same statement for the two client adapters alone
C4_ClientTxnFaultRaises == sv.type # "sqlite" => C4_TxnFaultRaises

\* C5: every stored row of a returned save carries, as additional_data, the
\* object of exactly the non-core keys of its record with their values, or null
\* when the record has none; the row has the fixed columns only.
RowColumns ==
    {"external_id", "first_name", "last_name", "birth_date", "status", "additional_data"}

RowMatches(row, p) ==
    /\ DOMAIN row = RowColumns
    /\ \A k \in CoreFields : row[k] = (IF Has(p, k) THEN Get(p, k) ELSE EmptyStr)
    /\ row.additional_data.null = (Keys(p) \ CoreFields = {})
    /\ ~row.additional_data.null =>
          /\ Keys(row.additional_data.json) = Keys(p) \ CoreFields
          /\ \A k \in Keys(p) \ CoreFields : Get(row.additional_data.json, k) = Get(p, k)

C5_AdditionalData ==
    SaveReturned =>
        /\ \A j \in Succeeded : \E r \in Range(NewRows) : RowMatches(r, sv.people[j])
        /\ \A r \in Range(NewRows) : \E j \in Succeeded : RowMatches(r, sv.people[j])

\* a returned save that stored one row with null additional_data and one with
\* a two-key object
C5_Witness ==
    /\ SaveReturned
    /\ \E r \in Range(NewRows) : r.additional_data.null
    /\ \E r \in Range(NewRows) : Len(r.additional_data.json) = 2

\* the rows stored by the first n finished calls, in call order
RECURSIVE StoredBy(_, _)
StoredBy(h, n) == IF n = 0 THEN <<>> ELSE StoredBy(h, n - 1) \o h[n].rows

GetCalled == rc'.op = "get" /\ nops' = nops + 1

\* C7: a getConnection call made while an entry is cached for its identifier
\* returns that very connection object at once, whatever options it passes,
\* and leaves the registry and the number of initialize invocations as they
\* were; initialize is invoked only by a call that found no entry.
C7_CachedConnectionReused ==
    [][/\ (GetCalled /\ rc'.id \in DOMAIN activeConnections) =>
             /\ rc'.pc = "done" /\ rc'.ret = "returned"
             /\ rc'.obj = activeConnections[rc'.id]
             /\ initCount' = initCount
             /\ activeConnections' = activeConnections
             /\ handles' = handles
       /\ initCount' # initCount =>
             (GetCalled /\ rc'.id \notin DOMAIN activeConnections)]_vars

\* a cached sqlite connection returned to a call that asked for another type
C7_Witness ==
    /\ rc.op = "get" /\ rc.pc = "done" /\ rc.hit
    /\ rc.obj.type = "sqlite" /\ rc.type = "postgres"
    /\ rc.initsBefore = 1 /\ initCount = 1

\* C8: when closeConnection has finished, with the close routine resolved or
\* rejected, the registry holds no entry for the identifier.
C8_CloseEvicts ==
    (rc.op = "close" /\ rc.pc = "done") => rc.id \notin DOMAIN activeConnections

\* what the code does: the entry is evicted exactly when the close resolved
C8_CloseEvictsOnSuccess ==
    (rc.op = "close" /\ rc.pc = "done") =>
        /\ rc.ret = "returned" => rc.id \notin DOMAIN activeConnections
        /\ rc.ret = "threw" => (rc.id \in DOMAIN activeConnections
                                /\ activeConnections[rc.id] = rc.obj)
        /\ ~rc.hit => (rc.ret = "returned" /\ activeConnections = rc.cached)

\* C9: closeAllConnections never raises; the close routine of every cached
\* entry is invoked, each entry's handle is closed unless its own close
\* failed, every outcome is awaited and the registry is empty on return.
C9_CloseAllNeverRaises ==
    rc.op = "closeAll" =>
        /\ rc.ret # "threw"
        /\ rc.invoked = {rc.cached[i].connection : i \in DOMAIN rc.cached}
        /\ rc.pc = "done" =>
              /\ rc.ret = "returned"
              /\ rc.pending = {}
              /\ DOMAIN activeConnections = {}
              /\ \A i \in DOMAIN rc.cached :
                    i \in rc.failed \/ handles[rc.cached[i].connection].state = "closed"

\* a finished closeAllConnections over two entries, the close of one failed
C9_Witness ==
    /\ rc.op = "closeAll" /\ rc.pc = "done"
    /\ DOMAIN rc.cached = ConnIds
    /\ Cardinality(rc.failed) = 1
    /\ \E i \in DOMAIN rc.cached : handles[rc.cached[i].connection].state = "closed"

(***************************************************************************)
(* Properties of processExcelFile                                          *)
(***************************************************************************)
CeilDiv(n, c) == (n + c - 1) \div c

RECURSIVE Flatten(_, _)
Flatten(lists, n) == IF n = 0 THEN <<>> ELSE Flatten(lists, n - 1) \o lists[n]

RECURSIVE SumInserted(_, _)
SumInserted(rs, n) == IF n = 0 THEN 0 ELSE SumInserted(rs, n - 1) + rs[n].inserted

\* a call that returned no errors count adds no error
RECURSIVE SumErrors(_, _)
SumErrors(rs, n) ==
    IF n = 0 THEN 0
    ELSE SumErrors(rs, n - 1) + (IF "errors" \in DOMAIN rs[n] THEN rs[n].errors ELSE 0)

ImportReturned == imp.pc = "done" /\ imp.outcome = "resolved"

\* the save calls of a returned import are the consecutive chunks of the
\* shaped records: ceil(n/c) calls of c records (the last one the remainder)
\* when n > c, one call with all records when n <= c
ChunkedSaves ==
    LET n == Len(imp.people)
        c == imp.chunkSize
    IN /\ Len(imp.calls) = (IF n > c THEN CeilDiv(n, c) ELSE 1)
       /\ Len(imp.results) = Len(imp.calls)
       /\ Flatten(imp.calls, Len(imp.calls)) = imp.people
       /\ n > c => \A k \in 1..(Len(imp.calls) - 1) : Len(imp.calls[k]) = c
       /\ n <= c => imp.calls[1] = imp.people

\* C10: a returned import has saved the records in ceil(n/c) consecutive
\* chunks of c records when n > c and in one call when n <= c, and returns as
\* inserted and errors the sums of the counts of those calls.
C10_ChunksAndSums ==
    ImportReturned =>
        /\ ChunkedSaves
        /\ imp.value.inserted = SumInserted(imp.results, Len(imp.results))
        /\ "errors" \in DOMAIN imp.value
        /\ imp.value.errors = SumErrors(imp.results, Len(imp.results))

\* the same for every import of at least one shaped record
C10_ChunksAndSumsNonEmpty ==
    (ImportReturned /\ Len(imp.people) > 0) => C10_ChunksAndSums

\* an import of four records in chunks of three: calls of 3 and 1
C10_Reached ==
    /\ ImportReturned
    /\ Len(imp.people) = 4 /\ imp.chunkSize = 3
    /\ Len(imp.calls) = 2 /\ Len(imp.calls[2]) = 1
    /\ imp.value.inserted = 3

\* C11: the save call of a chunk is made only when the save call of the chunk
\* before it has resolved and nothing of it is left to run; at most one save
\* call of an import is unsettled at any time.
C11_ChunksSequential ==
    [][ imp.pc # "idle" =>
          /\ Len(imp.calls) - Len(imp.results) \in {0, 1}
          /\ Len(imp'.calls) - Len(imp'.results) \in {0, 1}
          /\ (Len(imp'.calls) > Len(imp.calls) /\ Len(imp.calls) > 0) =>
                /\ sv.pc = "done" /\ sv.outcome = "resolved"
                /\ sv.queue = <<>> /\ sv.inflight = {} /\ txn = NoTxn
                /\ Len(imp'.results) = Len(imp.calls)
                /\ Len(imp'.calls) = Len(imp.calls) + 1 ]_vars

\* the second chunk is being saved after the first has resolved
C11_Witness ==
    /\ imp.pc = "save" /\ Len(imp.calls) = 2 /\ Len(imp.results) = 1
    /\ sv.pc \notin {"idle", "done"}
    /\ Len(table) > 0

\* the save call of chunk k (k > 1) has rejected and the import has finished
LaterChunkFailed ==
    /\ imp.pc = "done" /\ imp.outcome = "rejected"
    /\ Len(imp.calls) > 1 /\ Len(imp.results) < Len(imp.calls)

OriginalError ==
    IF ~imp.parses THEN "Failed to parse Excel file"
    ELSE IF imp.calls = <<>> THEN "Failed to initialize database"
    ELSE IF Len(imp.results) < Len(imp.calls) THEN sv.error.message
    ELSE "Failed to close database connection"

\* C13: whenever processExcelFile finishes, a closeConnection call for
\* options.connectionId has been made and has settled; after a failure the
\* import is rejected with the error of the failure, also when the close made
\* in the catch block fails.
C13_AlwaysCloses ==
    [][ (imp.pc # "idle" /\ imp.pc # "done" /\ imp'.pc = "done") =>
          /\ imp.closes >= 1
          /\ rc.op = "close" /\ rc.pc = "done" /\ rc.id = imp.connectionId
          /\ imp.pc = "catchClose" =>
                /\ imp'.outcome = "rejected"
                /\ imp.error = OriginalError
                /\ imp'.error = imp.error
          /\ imp.pc = "close" => imp'.outcome = "resolved" ]_vars

\* a save failed and the close made in the catch block failed as well
C13_Witness ==
    /\ imp.pc = "done" /\ imp.outcome = "rejected"
    /\ Len(imp.results) < Len(imp.calls)
    /\ rc.op = "close" /\ rc.ret = "threw"
    /\ imp.error = sv.error.message

\* C14: every value processExcelFile returns has an inserted and an errors
\* count, both non-negative integers, a file of zero shaped records included.
C14_ReturnsCounts ==
    ImportReturned =>
        /\ DOMAIN imp.value = {"inserted", "errors"}
        /\ imp.value.inserted \in Nat
        /\ imp.value.errors \in Nat

(***************************************************************************)
(* Properties of parseExcel                                                *)
(***************************************************************************)
ParseDone == px.pc = "done"

ParseResolved == ParseDone /\ px.result.outcome = "resolved"

ParseRejected == ParseDone /\ px.result.outcome = "rejected"

\* the error a rejection wraps
Cause(result) == result.error[Len(result.error)]

DataInsufficient == {Message.NotEnoughData, Message.NotEnoughInformation}

\* both read paths end the same way: the same records, or the same failure
SameOutcome(a, b) ==
    /\ a.outcome = b.outcome
    /\ a.outcome = "resolved" => a.people = b.people
    /\ a.outcome = "rejected" => Cause(a) = Cause(b)

\* C15: the streaming read of a sheet ends as the full read of the same sheet
\* does: the same records in the same order, or the same failure; a sheet of
\* a header row only fails with the not-enough-data error on both.
C15_PathsAgree ==
    (ParseDone /\ px.useStreaming) =>
        /\ SameOutcome(px.result, parseExcelFull(px.sheet))
        /\ Len(px.sheet) = 1 => (ParseRejected /\ Cause(px.result) = Message.NotEnoughData)

\* the same for the sheets that have at least one data row
C15_PathsAgreeWithData ==
    (ParseDone /\ px.useStreaming /\ Len(px.sheet) >= 2) =>
        SameOutcome(px.result, parseExcelFull(px.sheet))

\* a streaming read in two windows that kept records of both
C15_Reached ==
    /\ ParseResolved /\ px.useStreaming
    /\ Len(px.windows) = 2 /\ Len(px.result.people) = 3

\* a data row is blank when every cell is undefined, null or ''
BlankRow(row) == \A j \in 1..Len(row) : row[j] \in {Undefined, Null, Str(<<>>)}

NonBlankRows(sheet) == SelectSeq(Tail(sheet), LAMBDA row : ~BlankRow(row))

\* no name column of the row holds a value
NameUnset(mapped, row) ==
    \A n \in 1..Len(mapped) :
        (mapped[n] = Str(Field.name) /\ n <= Len(row)) => CellText(row[n]) = <<>>

NameOfParts(person) ==
    Trim(Get(person, Field.last_name) \o <<" ">> \o Get(person, Field.first_name))

\* one column at most is mapped to the field
MappedOnce(mapped, field) ==
    Cardinality({n \in 1..Len(mapped) : mapped[n] = Str(field)}) <= 1

\* C16: every record of a row that has first_name and last_name set and no
\* name carries as name its own last_name, a space and its own first_name,
\* trimmed.
C16_NameOfOwnParts ==
    ParseResolved =>
        LET mapped == mappedHeaders(px.sheet[1])
            rows == NonBlankRows(px.sheet)
        IN \A j \in 1..Len(px.result.people) :
              LET person == px.result.people[j]
              IN (/\ Truthy(person, Field.first_name) /\ Truthy(person, Field.last_name)
                  /\ NameUnset(mapped, rows[j])) =>
                    /\ Has(person, Field.name)
                    /\ Get(person, Field.name) = NameOfParts(person)

\* the same for the sheets in which one column is mapped to each name part
C16_NameOfOwnPartsMappedOnce ==
    (/\ ParseResolved
     /\ MappedOnce(mappedHeaders(px.sheet[1]), Field.last_name)
     /\ MappedOnce(mappedHeaders(px.sheet[1]), Field.first_name)) => C16_NameOfOwnParts

\* the sheet of headers matricule, nom, prenom, datedenaissance, status and
\* the row of Girard David
C16_Reached ==
    /\ ParseResolved /\ px.sheet = <<Headers.french, Rows.girard>>
    /\ px.result.people =
          << << <<Field.external_id, <<"F", "R", "S", "E", "2", "X", "8", "S">>>>, <<Field.last_name, <<"G", "i", "r", "a", "r", "d">>>>,
                <<Field.first_name, <<"D", "a", "v", "i", "d">>>>, <<Field.birth_date, <<"1", "9", "8", "4", "-", "0", "9", "-", "2", "1">>>>,
                <<Field.status, <<"I", "n", "a", "c", "t", "i", "f">>>>, <<Field.name, <<"G", "i", "r", "a", "r", "d", " ", "D", "a", "v", "i", "d">>>> >> >>

\* none of name, first_name with last_name, email, external_id is among the
\* mapped headers of the sheet
NoIdentifyingHeader(sheet) ==
    LET mapped == mappedHeaders(sheet[1])
        Among(field) == Str(field) \in Range(mapped)
    IN ~(\/ Among(Field.name) \/ (Among(Field.first_name) /\ Among(Field.last_name))
         \/ Among(Field.email) \/ Among(Field.external_id))

StandardHeaders == {Field.external_id, Field.last_name, Field.first_name, Field.birth_date, Field.status}

C18_OnlyDataInsufficientFails ==
    (ParseDone /\ ~px.useStreaming /\ Len(px.sheet) >= 2 /\ ~NoIdentifyingHeader(px.sheet)) =>
        /\ ParseResolved
        /\ \A j \in 1..Len(px.result.people) :
              (px.sheet[1] = Headers.odd /\ NonBlankRows(px.sheet)[j] = Rows.zero) =>
                 Get(px.result.people[j], Field.external_id) = <<"0">>

\* the same for the sheets without a null cell in a kept row
C18_FailsOnlyOnNull ==
    (ParseDone /\ ~px.useStreaming /\ Len(px.sheet) >= 2 /\ ~NoIdentifyingHeader(px.sheet)
       /\ Rows.null \notin Range(px.sheet)) => C18_OnlyDataInsufficientFails

\* C19: a returned read has dropped exactly the blank data rows and holds one
\* record for every other data row, in the order of the rows.
C19_BlankRowsDropped ==
    ParseResolved =>
        LET mapped == mappedHeaders(px.sheet[1])
            rows == NonBlankRows(px.sheet)
        IN /\ Len(px.result.people) = Len(rows)
           /\ \A j \in 1..Len(rows) : px.result.people[j] = ShapeRow(mapped, rows[j])

\* a sheet with blank rows (empty, '' cells, undefined and null cells) between
\* two rows that are kept
C19_Witness ==
    /\ ParseResolved /\ Len(px.sheet) = 4
    /\ px.sheet[2] = Rows.girard /\ px.sheet[3] \in {Rows.empty, Rows.blank, Rows.holes}
    /\ px.sheet[4] = Rows.late
    /\ Len(px.result.people) = 2

\* the table entry of a header, if the table has one
Entry(h) ==
    CHOOSE e \in {HEADER_MAPPINGS[j] : j \in 1..Len(HEADER_MAPPINGS)} : e[1] = h

HasEntry(h) == \E j \in 1..Len(HEADER_MAPPINGS) : HEADER_MAPPINGS[j][1] = h

\* the lookup order: exact, lowercased, lowercased with '_' for whitespace,
\* else the lowercased and underscored string itself
LookupOrder(h) ==
    LET lower == LowerHeader(h)
        under == ReplaceWhitespace(lower)
    IN IF HasEntry(h) THEN Entry(h)[2]
       ELSE IF HasEntry(lower) THEN Entry(lower)[2]
       ELSE IF HasEntry(under) THEN Entry(under)[2]
       ELSE under

\* C20: for every header mapHeader returns a string, the one the lookup order
\* gives; for the empty header the empty string, which makes no column.
C20_LookupOrder ==
    (ParseDone /\ px.sheet # <<>>) =>
        \A j \in 1..Len(px.sheet[1]) :
            LET h == originalHeaders(px.sheet[1])[j]
            IN /\ IsString(mapHeader(h))
               /\ mapHeader(h) = Str(LookupOrder(h))
               /\ h = <<>> =>
                     /\ mapHeader(h) = Str(<<>>)
                     /\ \A person \in Range(px.result.people) : ~Has(person, <<>>)

\* the same for the headers that are not names of inherited properties
C20_LookupOrderOwnEntries ==
    (ParseDone /\ px.sheet # <<>>
       /\ \A j \in 1..Len(px.sheet[1]) :
             /\ originalHeaders(px.sheet[1])[j] \notin ObjectPrototypeKeys
             /\ LowerHeader(originalHeaders(px.sheet[1])[j]) \notin ObjectPrototypeKeys)
       => C20_LookupOrder

\* H with every space replaced by an underscore
Underscored(h) == [j \in 1..Len(h) |-> IF h[j] = " " THEN "_" ELSE h[j]]

\* h is the all-lowercase form or the underscored form of the listed header H
VariantOf(h, H) == h = LowerHeader(H) \/ h = Underscored(H)

HeadersRead == px.pc # "idle" /\ px.sheet # <<>>

\* C21: a header cell that is the all-lowercase form or the underscored form
\* of a listed header H is mapped to the canonical name of H.
C21_VariantsNormalize ==
    HeadersRead =>
        \A j \in 1..Len(px.sheet[1]) : \A e \in 1..Len(HEADER_MAPPINGS) :
            LET h == originalHeaders(px.sheet[1])[j]
            IN VariantOf(h, HEADER_MAPPINGS[e][1])
                  => mapHeader(h) = Str(HEADER_MAPPINGS[e][2])

\* the same for the listed headers whose variant is itself listed
C21_ListedVariantsNormalize ==
    HeadersRead =>
        \A j \in 1..Len(px.sheet[1]) : \A e \in 1..Len(HEADER_MAPPINGS) :
            LET h == originalHeaders(px.sheet[1])[j]
            IN (VariantOf(h, HEADER_MAPPINGS[e][1]) /\ HasEntry(h))
                  => mapHeader(h) = Str(HEADER_MAPPINGS[e][2])

\* an unlisted lower-case form is kept as it is
C21_Reached ==
    /\ ParseResolved
    /\ px.sheet[1] = Headers.variants
    /\ \E person \in Range(px.result.people) : Has(person, <<"d", "o", "b">>)

(***************************************************************************)
(* normalizePersonFields                                                   *)
(***************************************************************************)
\* C22: normalizePersonFields applied to what it returned gives the same
\* record again.
C22_Idempotent ==
    nz.pc = "again" => nz.normalized = nz.people

\* a record with an alias key and a name to split was normalized twice
C22_Witness ==
    /\ nz.pc = "again"
    /\ Has(nz.input[1], "Name") /\ Has(nz.input[1], "custom")
    /\ nz.people # nz.input
    /\ Truthy(nz.normalized[1], "first_name")

\* the record after the alias keys were renamed
Renamed(person) == ApplyMappings(person, person, Len(person))

\* name.trim().split(/\s+/)
Tokens(o) == SplitSpaces(Trim(Get(o, "name")))

\* a name part that is present is kept
KeepsPresent(m, out) ==
    \A k \in {"first_name", "last_name"} :
        Truthy(m, k) => (Has(out, k) /\ Get(out, k) = Get(m, k))

\* name is absent and both parts are present: name is last_name, a space and
\* first_name, trimmed
JoinsName(m, out) ==
    (~Truthy(m, "name") /\ Truthy(m, "first_name") /\ Truthy(m, "last_name"))
        => (Has(out, "name")
              /\ Get(out, "name") = Trim(Get(m, "last_name") \o <<" ">> \o Get(m, "first_name")))

\* each missing part is derived from name: last_name the first token,
\* first_name the remaining tokens joined by single spaces
DerivesParts(m, out) ==
    /\ ~Truthy(m, "last_name") => (Has(out, "last_name") /\ Get(out, "last_name") = Tokens(m)[1])
    /\ ~Truthy(m, "first_name") => OrEmpty(out, "first_name") = JoinSpace(Tail(Tokens(m)))

\* C23 as stated: whenever name is present and a part is absent, the part is
\* derived from name.
C23_NameDerivation ==
    nz.pc = "normalized" =>
        LET m == Renamed(nz.input[1])
            out == nz.normalized[1]
        IN /\ Truthy(m, "name") => DerivesParts(m, out)
           /\ KeepsPresent(m, out)
           /\ JoinsName(m, out)

\* C23: when name is present with at least two tokens, each absent part is
\* derived from name (last_name the first token, first_name the remaining
\* tokens joined by single spaces); when name has fewer than two tokens no
\* part is derived; a part that is present is kept; when name is absent and
\* both parts are present, name is last_name, a space and first_name, trimmed.
C23_NameDerivationTwoTokens ==
    nz.pc = "normalized" =>
        LET m == Renamed(nz.input[1])
            out == nz.normalized[1]
        IN /\ (Truthy(m, "name") /\ Len(Tokens(m)) >= 2) => DerivesParts(m, out)
           /\ (Truthy(m, "name") /\ Len(Tokens(m)) < 2) =>
                 \A k \in {"first_name", "last_name"} :
                     /\ Has(out, k) = Has(m, k)
                     /\ Has(m, k) => Get(out, k) = Get(m, k)
           /\ KeepsPresent(m, out)
           /\ JoinsName(m, out)

\* a record with the alias 'Name' of three tokens and no name part
C23_Witness ==
    /\ nz.pc = "normalized"
    /\ Has(nz.input[1], "Name") /\ Len(nz.input[1]) = 1
    /\ Has(nz.normalized[1], "last_name") /\ Get(nz.normalized[1], "last_name") = <<"b">>
    /\ Get(nz.normalized[1], "first_name") = <<"a", " ", "c">>

\* the record of one field, name of one token, gets no last_name
C23_SingleToken ==
    /\ nz.pc = "normalized"
    /\ nz.input[1] = << <<"name", <<"b">> >> >>
    /\ ~Has(nz.normalized[1], "last_name")

\* the adapter is given one normalized record per record passed, in order
ReceivesNormalized ==
    /\ Len(sv.people) = Len(nz.input)
    /\ \A j \in 1..Len(nz.input) : sv.people[j] = normalizePersonFields(nz.input[j])

\* the keys of person in K go through with the same key and value
PassesThrough(person, out, K) ==
    \A k \in Keys(person) \cap K : Has(out, k) /\ Get(out, k) = Get(person, k)

CanonicalKeys == {"external_id", "name", "first_name", "last_name", "birth_date", "status"}

\* C24: the adapter receives the normalized records, one per record passed
\* and in order; every key that is neither in the alias table nor one of the
\* canonical names the aliases and the name rule write to goes through with
\* the same key and value.
C24_PassThrough ==
    /\ (nz.pc = "saved" /\ sv.pc # "idle") => ReceivesNormalized
    /\ nz.pc = "normalized" =>
          PassesThrough(nz.input[1], nz.normalized[1],
                        Keys(nz.input[1]) \ (Keys(fieldMappings) \cup CanonicalKeys))

\* the same for the keys that are not names of inherited properties either
C24_PassThroughOwnKeys ==
    /\ (nz.pc = "saved" /\ sv.pc # "idle") => ReceivesNormalized
    /\ nz.pc = "normalized" =>
          PassesThrough(nz.input[1], nz.normalized[1],
                        Keys(nz.input[1]) \ (Keys(fieldMappings) \cup CanonicalKeys
                                                \cup Keys(InheritedProperties)))

\* a key without mapping went through, next to an alias that was renamed
C24_Reached ==
    /\ nz.pc = "normalized"
    /\ Has(nz.input[1], "custom") /\ Has(nz.input[1], "ID")
    /\ Has(nz.normalized[1], "custom") /\ Has(nz.normalized[1], "external_id")

\* the key 'constructor' does not go through
C24_Inherited ==
    /\ nz.pc = "normalized"
    /\ Has(nz.input[1], "constructor")
    /\ ~Has(nz.normalized[1], "constructor")

(***************************************************************************)
(* Sub-batches and counts of the adapters' saveToDatabase                  *)
(***************************************************************************)
\* the records of the list that pass the identifying-information check
Eligible == {j \in 1..Len(sv.people) : ~SkipsRecord(sv.people[j])}

\* the inserts issued so far, in order
IssuedInserts == SelectSeq(stmts, LAMBDA q : q.op = "INSERT")

\* the sub-batch of the record at index j
SubBatch(j) == (j - 1) \div batchSize

CommitIssued == \E j \in 1..Len(stmts) : stmts[j].op = "COMMIT"

\* C25: in the mysql and postgres saveToDatabase the inserts are issued in
\* input order, the inserts in flight all belong to one sub-batch of at most
\* batchSize consecutive records, no insert of a later sub-batch has been
\* issued while one is in flight, and COMMIT is issued only when every
\* eligible record has been attempted and none is in flight.
C25_SubBatchesSequential ==
    (sv.type \in {"mysql", "postgres"} /\ sv.pc \notin {"idle", "entered"}) =>
        /\ Cardinality(sv.inflight) <= batchSize
        /\ \A k \in 1..Len(IssuedInserts) - 1 :
              IssuedInserts[k].idx < IssuedInserts[k + 1].idx
        /\ {IssuedInserts[k].idx : k \in 1..Len(IssuedInserts)} = sv.attempted
        /\ \A a \in sv.inflight : \A b \in sv.attempted : SubBatch(b) <= SubBatch(a)
        /\ \A a \in sv.inflight : \A j \in Eligible :
              SubBatch(j) = SubBatch(a) => j \in sv.attempted
        /\ CommitIssued => (sv.inflight = {} /\ sv.attempted = Eligible)

\* the second sub-batch is in flight after the first one, a full one, has
\* completed
C25_Witness ==
    /\ sv.type = "postgres" /\ sv.pc = "await"
    /\ \E a \in sv.inflight :
          Cardinality({b \in sv.attempted : SubBatch(b) < SubBatch(a)}) = batchSize

ReturnsCounts ==
    /\ sv.pc = "done" /\ sv.outcome = "resolved"
    /\ DOMAIN sv.value = {"inserted", "errors"}

\* C30: a saveToDatabase call that returns {inserted, errors} has attempted
\* exactly the eligible records, counted every failed attempt in errors and
\* every other attempt in inserted, so that inserted, errors and the number of
\* skipped records add up to the number of records passed; COMMIT was issued
\* once, as the last statement; and while an attempt is outstanding COMMIT has
\* not run.
C30_CountsAddUp ==
    /\ ReturnsCounts =>
          /\ sv.attempted = Eligible
          /\ sv.failed \subseteq sv.attempted
          /\ sv.value.errors = Cardinality(sv.failed)
          /\ sv.value.inserted = Cardinality(sv.attempted \ sv.failed)
          /\ sv.value.inserted + sv.value.errors
                + (Len(sv.people) - Cardinality(Eligible)) = Len(sv.people)
          /\ sv.value.inserted = sv.inserted /\ sv.value.errors = sv.errors
          /\ Cardinality({j \in 1..Len(stmts) : stmts[j].op = "COMMIT"}) = 1
          /\ stmts[Len(stmts)].op = "COMMIT"
          /\ sv.inflight = {} /\ sv.queue = <<>>
    /\ (sv.pc \notin {"idle", "done"} /\ sv.inflight # {}) => ~CommitIssued
    /\ (sv.type = "sqlite" /\ \E j \in 1..Len(sv.queue) : sv.queue[j].op = "INSERT")
          => \E j \in 1..Len(sv.queue) : sv.queue[j].op = "COMMIT"

\* a call returned with a stored, a failed and a skipped record
C30_Witness ==
    /\ ReturnsCounts
    /\ sv.value.inserted > 0 /\ sv.value.errors > 0
    /\ Cardinality(Eligible) < Len(sv.people)

(***************************************************************************)
(* Schema evolution of the sqlite adapter                                  *)
(***************************************************************************)
\* no column and no row is ever lost
SchemaOnlyGrows ==
    si.pc # "idle" =>
        /\ si.before.columns \subseteq sqliteFile.columns
        /\ si.before.table => sqliteFile.rows = si.before.rows

\* an initializeDatabase that found the relation complete issued no ALTER
\* and left the file as it was
NothingMissingNothingDone ==
    (si.pc # "idle" /\ si.before.table /\ requiredColumns \subseteq si.before.columns)
        => (si.alters = {} /\ sqliteFile = si.before
              /\ (si.pc = "done" /\ ~si.fault => si.outcome = "resolved"))

\* the ALTER statements are those of the missing required columns, and a call
\* that resolves has added exactly those
AddsMissing ==
    (si.pc \in {"altering", "done"} /\ si.before.table) =>
        /\ si.alters \in {{}, requiredColumns \ si.before.columns}
        /\ (si.pc = "done" /\ si.outcome = "resolved") =>
              /\ si.alters = requiredColumns \ si.before.columns
              /\ sqliteFile.columns = si.before.columns \cup requiredColumns

\* C26: on an existing people relation initializeDatabase, when the engine is
\* not at fault, resolves having added exactly the missing required columns;
\* it never drops a column or a row and issues no ALTER when nothing is
\* missing.
C26_SchemaAdditive ==
    /\ SchemaOnlyGrows /\ NothingMissingNothingDone /\ AddsMissing
    /\ (si.pc = "done" /\ si.before.table /\ ~si.fault) => si.outcome = "resolved"

\* the same for relations that have created_at or hold no row
C26_SchemaAdditiveConstantDefaults ==
    /\ SchemaOnlyGrows /\ NothingMissingNothingDone /\ AddsMissing
    /\ (si.pc = "done" /\ si.before.table /\ ~si.fault
          /\ ("created_at" \in si.before.columns \/ si.before.rows = 0))
          => si.outcome = "resolved"

\* a relation with a row and without created_at: the call is rejected, the
\* other missing columns were added
C26_Rejected ==
    /\ si.pc = "done" /\ ~si.fault /\ si.outcome = "rejected"
    /\ si.before.columns = {"id", "legacy"}
    /\ sqliteFile.columns = si.before.columns \cup (requiredColumns \ {"created_at"})

\* a second call on an evolved relation changed nothing
C26_Reached ==
    /\ si.pc = "done" /\ si.n = 2 /\ si.outcome = "resolved" /\ si.alters = {}
    /\ "legacy" \in sqliteFile.columns /\ sqliteFile.rows > 0

(***************************************************************************)
(* The postgres adapter's pools                                            *)
(***************************************************************************)
\* closeDatabase ended the connection's client; with forceClose it ended the
\* pool too, without it the pool is left as it was
CloseEndsHandle ==
    pgLast.op = "close" =>
        /\ conns[pgLast.conn].ended
        /\ pgLast.force => pools[pgLast.cs].ended
        /\ ~pgLast.force => pools[pgLast.cs] = pgLast.poolBefore

\* every connection made earlier on the configuration of the last call has
\* been closed
OthersClosed ==
    \A j \in 1..Len(conns) :
        (conns[j].cs = pgLast.cs /\ j # pgLast.conn) => conns[j].ended

\* an initializeDatabase that found the pool of its configuration, not ended
InitOnLivePool ==
    /\ pgLast.op = "init" /\ pgLast.reused /\ ~pgLast.poolBefore.ended
    /\ ~pgLast.fault

\* the call returned a connection of the pool it found
ReturnsWorking ==
    /\ pgLast.outcome = "resolved"
    /\ ~conns[pgLast.conn].ended /\ conns[pgLast.conn].cs = pgLast.cs
    /\ pools[pgLast.cs].max = pgLast.poolBefore.max

\* C27: closeDatabase without forceClose ends only the client and leaves the
\* pool as it was, with forceClose it ends the pool too; an initializeDatabase
\* on a configuration whose earlier connections were all closed without
\* forceClose reuses the pool and returns a working connection.
C27_PoolReuse ==
    /\ CloseEndsHandle
    /\ (InitOnLivePool /\ OthersClosed) => ReturnsWorking

\* the same while fewer clients than the pool's max have been taken
C27_PoolReuseBelowMax ==
    /\ CloseEndsHandle
    /\ (InitOnLivePool /\ OthersClosed /\ pgLast.poolBefore.out < pgLast.poolBefore.max)
          => ReturnsWorking

\* a second connection was made on the pool of a closed one
C27_Reached ==
    /\ InitOnLivePool /\ OthersClosed /\ ReturnsWorking
    /\ pgLast.conn = 2 /\ conns[1].ended

\* the pool of one client: after a close the next initializeDatabase fails
C27_Exhausted ==
    /\ InitOnLivePool /\ OthersClosed /\ pgLast.outcome = "rejected"
    /\ pgLast.poolBefore.max = 1 /\ Len(conns) = 1

(***************************************************************************)
(* The read strategy of processExcelFile                                   *)
(***************************************************************************)
\* the threshold in bytes: the one the options give, else 10 MB
ThresholdBytes(options) ==
    (IF "streamThreshold" \in DOMAIN options THEN options.streamThreshold ELSE 10)
        * 1024 * 1024

\* C28: processExcelFile reads in streaming mode exactly when
\* options.useStreaming is set or the file is strictly larger than the
\* threshold, the one the options give or else 10 MB.
C28_StreamingDecision ==
    imp.pc = "parse" =>
        (imp.read.useStreaming
            <=> (imp.read.options.useStreaming
                   \/ imp.read.size > ThresholdBytes(imp.read.options)))

\* the same for options whose threshold is not 0
C28_StreamingDecisionNonZero ==
    (imp.pc = "parse"
       /\ ~("streamThreshold" \in DOMAIN imp.read.options
              /\ imp.read.options.streamThreshold = 0))
       => (imp.read.useStreaming
             <=> (imp.read.options.useStreaming
                    \/ imp.read.size > ThresholdBytes(imp.read.options)))

\* a file of exactly 10 MB is read whole, one of a byte more in streaming mode
C28_Reached ==
    /\ imp.pc = "parse" /\ imp.read.options = [useStreaming |-> FALSE]
    /\ \/ imp.read.size = 10 * 1024 * 1024 /\ ~imp.read.useStreaming
       \/ imp.read.size = 10 * 1024 * 1024 + 1 /\ imp.read.useStreaming

\* threshold 0: a file of 1 MB is read whole
C28_ZeroThreshold ==
    /\ imp.pc = "parse"
    /\ imp.read.options = [useStreaming |-> FALSE, streamThreshold |-> 0]
    /\ imp.read.size = 1024 * 1024 /\ ~imp.read.useStreaming

(***************************************************************************)
(* Overlapping getConnection calls                                         *)
(***************************************************************************)
\* the calls of c and d are for one identifier and have both returned
BothReturned(c, d) ==
    /\ c # d /\ gc[c].id = gc[d].id
    /\ gc[c].pc = "done" /\ gc[c].ret = "returned"
    /\ gc[d].pc = "done" /\ gc[d].ret = "returned"

\* every open engine handle is the connection of a registry entry
NoHandleOutside ==
    \A h \in 1..Len(handles) :
        handles[h].state = "open" =>
            \E id \in DOMAIN activeConnections : activeConnections[id].connection = h

\* initializeDatabase calls made for the identifier id
InitsFor(id) ==
    Cardinality({c \in 1..MaxCallers : gc[c].id = id /\ gc[c].pc # "idle" /\ ~gc[c].hit})

\* C29: getConnection calls for one identifier, overlapping or not, invoke
\* initializeDatabase at most once for it unless it failed, return the same
\* connection object, and leave no open handle outside the registry.
C29_GetOrCreateAtomic ==
    /\ \A c, d \in 1..MaxCallers :
          BothReturned(c, d) => (gc[c].obj = gc[d].obj /\ (gc[c].hit \/ gc[d].hit))
    /\ (\A c \in 1..MaxCallers : gc[c].pc \in {"idle", "done"}) => NoHandleOutside

\* the same for calls that do not overlap: a call starts after every earlier
\* call for its identifier has settled
C29_SequentialCalls ==
    (\A c, d \in 1..MaxCallers :
        (c # d /\ gc[c].id = gc[d].id /\ gc[c].pc # "idle" /\ gc[d].pc # "idle")
            => (gc[c].hit \/ gc[d].hit \/ gc[c].ret = "threw" \/ gc[d].ret = "threw"))
      => C29_GetOrCreateAtomic

\* two calls for one identifier returned one object, the second from the
\* registry
C29_Reached ==
    \E c, d \in 1..MaxCallers : BothReturned(c, d) /\ gc[c].obj = gc[d].obj /\ gc[d].hit

\* two overlapping calls returned different objects and the handle of the
\* first is open outside the registry
C29_Leaked ==
    /\ \E c, d \in 1..MaxCallers : BothReturned(c, d) /\ gc[c].obj # gc[d].obj
    /\ ~NoHandleOutside /\ InitsFor("x") = 2

(***************************************************************************)
(* The two derivations of name                                             *)
(***************************************************************************)
\* the headers the second derivation is keyed on
TwoPathHeaders(mapped) ==
    /\ ~Includes(mapped, Field.name)
    /\ Includes(mapped, Field.first_name) /\ Includes(mapped, Field.last_name)

\* the record the general rule alone gives for the row
GeneralRule(mapped, row) == CombineName(AssignCells(mapped, row, Len(mapped)))

SameName(person, general) ==
    /\ Has(person, Field.name) <=> Has(general, Field.name)
    /\ Has(person, Field.name) => Get(person, Field.name) = Get(general, Field.name)

\* C31: whenever the headers hold first_name and last_name columns and no
\* name column, the name of every record, recomputed from the row cells at
\* the first such columns, is the name the general rule gives from the
\* record's own first_name and last_name.
C31_DerivationsAgree ==
    ParseResolved =>
        LET mapped == mappedHeaders(px.sheet[1])
            rows == NonBlankRows(px.sheet)
        IN TwoPathHeaders(mapped) =>
              \A j \in 1..Len(px.result.people) :
                  SameName(px.result.people[j], GeneralRule(mapped, rows[j]))

\* the same for the rows whose record carries both name parts, on sheets with
\* one column per name part
C31_DerivationsAgreeFilled ==
    ParseResolved =>
        LET mapped == mappedHeaders(px.sheet[1])
            rows == NonBlankRows(px.sheet)
        IN (/\ TwoPathHeaders(mapped)
            /\ MappedOnce(mapped, Field.last_name) /\ MappedOnce(mapped, Field.first_name)) =>
              \A j \in 1..Len(px.result.people) :
                  (/\ Truthy(px.result.people[j], Field.first_name)
                   /\ Truthy(px.result.people[j], Field.last_name)) =>
                      SameName(px.result.people[j], GeneralRule(mapped, rows[j]))

\* headers nom, prenom and a row with an empty nom cell: the record carries
\* the name 'b' where the general rule sets none
C31_EmptyCell ==
    /\ ParseResolved /\ px.sheet = <<Headers.names, Rows.late>>
    /\ Get(px.result.people[1], Field.name) = <<"b">>
    /\ ~Has(GeneralRule(mappedHeaders(Headers.names), Rows.late), Field.name)

\* the Girard David sheet: both derivations give 'Girard David'
C31_Reached ==
    /\ ParseResolved /\ px.sheet = <<Headers.french, Rows.girard>>
    /\ Get(px.result.people[1], Field.name) = <<"G", "i", "r", "a", "r", "d", " ", "D", "a", "v", "i", "d">>
    /\ Get(GeneralRule(mappedHeaders(Headers.french), Rows.girard), Field.name) = <<"G", "i", "r", "a", "r", "d", " ", "D", "a", "v", "i", "d">>

(***************************************************************************)
(* Canonical keys next to their aliases                                    *)
(***************************************************************************)
\* the record maps no other key to the canonical key k
NoAliasOf(person, k) ==
    \A j \in 1..Len(person) :
        Has(fieldMappings, person[j][1]) => Get(fieldMappings, person[j][1]) # k

\* C32: normalizePersonFields never changes the value of a key that is
\* already canonical, also when the record carries an alias of the same
\* field.
C32_CanonicalKept ==
    nz.pc = "normalized" =>
        LET person == nz.people[1]
            out == nz.normalized[1]
        IN \A k \in CanonicalKeys :
              Truthy(person, k) => Has(out, k) /\ Get(out, k) = Get(person, k)

\* the same for the canonical keys of which the record carries no alias
C32_CanonicalKeptWithoutAlias ==
    nz.pc = "normalized" =>
        LET person == nz.people[1]
            out == nz.normalized[1]
        IN \A k \in CanonicalKeys :
              (Truthy(person, k) /\ NoAliasOf(person, k)) =>
                  Has(out, k) /\ Get(out, k) = Get(person, k)

\* {name: 'b', Name: 'b  a c'}: the result carries the alias's value as name
C32_AliasWins ==
    /\ nz.pc = "normalized"
    /\ nz.people[1] = << <<"name", <<"b">>>>, <<"Name", <<"b", " ", " ", "a", " ", "c">>>> >>
    /\ Get(nz.normalized[1], "name") = <<"b", " ", " ", "a", " ", "c">>

\* {name: 'b  a c', custom: 'b'}: name is kept next to the derived parts
C32_Reached ==
    /\ nz.pc = "normalized"
    /\ nz.people[1] = << <<"name", <<"b", " ", " ", "a", " ", "c">>>>, <<"custom", <<"b">>>> >>
    /\ Get(nz.normalized[1], "name") = <<"b", " ", " ", "a", " ", "c">>
    /\ Has(nz.normalized[1], "last_name")

(***************************************************************************)
(* The windows of the streaming read                                       *)
(***************************************************************************)
\* the data rows the loop has passed: sheet rows 2 .. startRow, at most all
RowsPassed ==
    SubSeq(px.sheet, 2, IF px.startRow < px.totalRows THEN px.startRow ELSE px.totalRows)

StreamingUnfailed ==
    px.pc \in {"windows", "done"} /\ px.useStreaming /\ px.result.outcome = "resolved"

\* C33: in the streaming read the windows taken so far, one after the other,
\* are the data rows passed so far, each row once and in sheet order; no
\* window holds more than chunkSize rows; the records are those of these rows
\* in order; and when the read returns the windows are all the data rows.
C33_WindowsPartition ==
    StreamingUnfailed =>
        /\ Flatten(px.windows, Len(px.windows)) = RowsPassed
        /\ \A w \in 1..Len(px.windows) :
              Len(px.windows[w]) >= 1 /\ Len(px.windows[w]) <= px.chunkSize
        /\ px.result.people = ShapeRows(px.mapped, RowsPassed).people
        /\ px.pc = "done" => RowsPassed = Tail(px.sheet)

\* a read that returned after a full window and a shorter last one
C33_Witness ==
    /\ StreamingUnfailed /\ px.pc = "done"
    /\ Len(px.windows) >= 2
    /\ Len(px.windows[1]) = px.chunkSize /\ px.chunkSize >= 2
    /\ Len(px.windows[Len(px.windows)]) < px.chunkSize
    /\ Len(px.result.people) >= 2

(***************************************************************************)
(* What a rejected save leaves in the table                                *)
(***************************************************************************)
SaveRejected == sv.pc = "done" /\ sv.outcome = "rejected"

\* C34: whenever saveToDatabase rejects, on any adapter, the stored rows are
\* those of before the call and no transaction of the call is left open.
C34_RejectedLeavesNothing ==
    SaveRejected => table = sv.before /\ txn = NoTxn

\* the same for the mysql and postgres adapters
C34_ClientRejectedLeavesNothing ==
    (SaveRejected /\ sv.type # "sqlite") => table = sv.before /\ txn = NoTxn

\* the same for the sqlite adapter when BEGIN TRANSACTION succeeded
C34_SqliteRejectedAfterBegin ==
    (SaveRejected /\ sv.type = "sqlite" /\ ~sv.beginFailed) => table = sv.before /\ txn = NoTxn

\* a sqlite save rejected at COMMIT after its BEGIN had failed unobserved:
\* the rows inserted by the call are stored
C34_Persisted ==
    /\ SaveRejected /\ sv.type = "sqlite" /\ sv.beginFailed /\ sv.commitFailed
    /\ Len(table) > Len(sv.before)

\* a client save rejected at COMMIT after an insert had succeeded
C34_Reached ==
    /\ SaveRejected /\ sv.type # "sqlite" /\ sv.commitFailed
    /\ sv.inserted > 0 /\ table = sv.before

(***************************************************************************)
(* getConnection when initializeDatabase fails                             *)
(***************************************************************************)
GetThrew == rc.op = "get" /\ rc.pc = "done" /\ rc.ret = "threw"

\* C35: a getConnection call whose initializeDatabase fails throws and
\* leaves the registry as it was, with no entry for the identifier; the next
\* getConnection with that identifier calls initializeDatabase again.
C35_FailedInitNotCached ==
    [][/\ (rc.op = "get" /\ rc.pc = "init" /\ rc'.ret = "threw") =>
              /\ activeConnections' = activeConnections
              /\ rc.id \notin DOMAIN activeConnections'
       /\ GetThrew => (activeConnections = rc.cached /\ rc.id \notin DOMAIN activeConnections)
       /\ (GetThrew /\ GetCalled /\ rc'.id = rc.id) =>
              (rc'.pc = "init" /\ initCount' = initCount + 1)]_vars

\* a getConnection call has thrown after an earlier call had cached another
\* identifier
C35_Witness ==
    /\ GetThrew /\ rc.initsBefore >= 1
    /\ activeConnections # EmptyReg /\ rc.id \notin DOMAIN activeConnections

(***************************************************************************)
(* initializeDatabase after the pool was ended                             *)
(***************************************************************************)
\* a connection of the configuration has been closed with forceClose
TornDown(cs) == \E j \in 1..Len(conns) : conns[j].cs = cs /\ conns[j].forced

\* C36: an initializeDatabase on a configuration one of whose connections was
\* closed with forceClose works on a pool that has not been ended and
\* resolves with a connection of it; no initializeDatabase resolves with a
\* pool that has been ended.
C36_FreshPoolAfterForce ==
    /\ (pgLast.op = "init" /\ ~pgLast.fault /\ TornDown(pgLast.cs)) =>
          /\ ~pgLast.poolBefore.ended
          /\ pgLast.outcome = "resolved" /\ ~conns[pgLast.conn].ended
    /\ (pgLast.op = "init" /\ pgLast.outcome = "resolved") => ~pools[pgLast.cs].ended

\* no initializeDatabase resolves with a pool that has been ended
C36_NeverReturnsEndedPool ==
    (pgLast.op = "init" /\ pgLast.outcome = "resolved") =>
        /\ ~pools[pgLast.cs].ended /\ ~pgLast.poolBefore.ended
        /\ ~TornDown(pgLast.cs)

\* the first connection was closed with forceClose; the next
\* initializeDatabase found the ended pool in the map and was rejected
C36_StalePool ==
    /\ pgLast.op = "init" /\ pgLast.outcome = "rejected" /\ ~pgLast.fault
    /\ pgLast.reused /\ pgLast.poolBefore.ended
    /\ Len(conns) = 1 /\ conns[1].forced /\ conns[1].cs = pgLast.cs

(***************************************************************************)
(* Clients checked out of a pool                                           *)
(***************************************************************************)
\* the connections of the configuration that have not been closed
OpenConns(cs) == {j \in 1..Len(conns) : conns[j].cs = cs /\ ~conns[j].ended}

\* C37: the clients checked out of a pool that has not been ended are those
\* of the connections that have not been closed: closeDatabase gives the
\* client of initializeDatabase back to the pool; and an initializeDatabase
\* on such a pool, with every earlier connection closed, is never refused for
\* lack of a free client.
C37_ClientsGivenBack ==
    /\ \A cs \in DOMAIN pools :
          ~pools[cs].ended => pools[cs].out = Cardinality(OpenConns(cs))
    /\ (InitOnLivePool /\ OthersClosed) => pgLast.outcome = "resolved"

\* an initializeDatabase that was rejected holds no client of the pool
C37_RejectedInitHoldsNoClient ==
    (pgLast.op = "init" /\ pgLast.outcome = "rejected") =>
        pools[pgLast.cs].out = pgLast.poolBefore.out

\* the only connection of a pool was closed without forceClose and its client
\* is still checked out
C37_Leaked ==
    /\ pgLast.op = "close" /\ ~pgLast.force
    /\ ~pools[pgLast.cs].ended /\ OpenConns(pgLast.cs) = {}
    /\ pools[pgLast.cs].out = 1

(***************************************************************************)
(* Engine handles after a failed initializeDatabase                        *)
(***************************************************************************)
\* the sqlite call was rejected after the file had been opened
SqliteFailedOpened == si.pc = "done" /\ si.outcome = "rejected" /\ si.handle # "none"

\* the mysql call was rejected after the connection had been made
MysqlFailedConnected ==
    pgLast.op = "mysqlInit" /\ pgLast.outcome = "rejected" /\ pgLast.conn # 0

\* the postgres call was rejected after pool.connect() had given a client
PgFailedConnected ==
    /\ pgLast.op = "init" /\ pgLast.outcome = "rejected" /\ pgLast.fault
    /\ PoolConnects(pgLast.poolBefore)

\* C38: an initializeDatabase that fails after the engine handle was opened
\* leaves no open handle: the sqlite database object and the mysql
\* connection have been closed, the postgres client has been given back to
\* its pool.
C38_FailedInitLeavesNoHandle ==
    /\ SqliteFailedOpened => si.handle = "closed"
    /\ MysqlFailedConnected => handles[pgLast.conn].state = "closed"
    /\ PgFailedConnected => pools[pgLast.cs].out = pgLast.poolBefore.out

\* the same for the postgres adapter alone
C38_PgFailedInitReleases ==
    PgFailedConnected => pools[pgLast.cs].out = pgLast.poolBefore.out

\* a mysql initializeDatabase whose CREATE TABLE failed: the connection is
\* still open
C38_MysqlLeft ==
    MysqlFailedConnected /\ handles[pgLast.conn].state = "open"

\* a sqlite initializeDatabase whose column addition failed: the database
\* object is still open
C38_SqliteLeft ==
    SqliteFailedOpened /\ si.handle = "open" /\ si.alters # {}

\* a postgres initializeDatabase whose CREATE TABLE failed on a pool with a
\* client out: that count is unchanged
C38_Reached ==
    PgFailedConnected /\ pgLast.poolBefore.out = 1 /\ pools[pgLast.cs].out = 1

(***************************************************************************)
(* The registry after a failed processExcelFile                            *)
(***************************************************************************)
ImportRejected == imp.pc = "done" /\ imp.outcome = "rejected"

\* the close routine of the entry the catch block found has been invoked
CatchClosedEntry ==
    /\ rc.op = "close" /\ rc.id = imp.connectionId
    /\ rc.hit => rc.obj.connection \in rc.invoked

\* C39: when processExcelFile has failed, on whichever path, the registry
\* holds no entry for options.connectionId and the close routine of the entry
\* that was there has been invoked, also when the import failed while parsing
\* and the entry had been cached by another caller.
C39_FailureEvicts ==
    ImportRejected =>
        /\ CatchClosedEntry
        /\ imp.connectionId \notin DOMAIN activeConnections

\* the same when the closeConnection of the catch block did not throw
C39_FailureEvictsWhenCloseReturns ==
    (ImportRejected /\ rc.ret = "returned") =>
        /\ CatchClosedEntry
        /\ imp.connectionId \notin DOMAIN activeConnections

\* the import failed while parsing; the entry another caller had cached under
\* the identifier has been closed and removed
C39_PreCachedEvicted ==
    /\ ImportRejected /\ ~imp.parses /\ initCount = 1
    /\ rc.hit /\ rc.ret = "returned" /\ rc.obj.connection = 1
    /\ handles[1].state = "closed"
    /\ imp.connectionId \notin DOMAIN activeConnections

\* the close of the catch block failed: the entry is still in the registry
C39_CloseFailed ==
    /\ ImportRejected /\ rc.ret = "threw"
    /\ imp.connectionId \in DOMAIN activeConnections

(***************************************************************************)
(* The backend of the adapter and of its argument                          *)
(***************************************************************************)
\* the adapter an argument of initializeDatabase is made for
BackendOf(arg) ==
    IF arg = "mysql_config" THEN "mysql"
    ELSE IF arg = "postgres_config" THEN "postgres" ELSE "sqlite"

LowerCaseTags == {"sqlite", "mysql", "postgres", "postgresql", "oracle"}

GetInitializes == rc.op = "get" /\ ~rc.hit /\ rc.pc \in {"init", "done"}

CloseOfPooled == rc.op = "close" /\ rc.hit /\ rc.adapter = "postgres"

\* C40: in getConnection the adapter chosen for the type tag is initialized
\* with the argument of its own backend, a config object for mysql and
\* postgres and a path for sqlite, for every spelling of the tag; and
\* closeConnection passes its force flag to the close routine of every
\* connection of the postgres adapter.
C40_AdapterMatchesArgument ==
    /\ GetInitializes => BackendOf(rc.arg) = rc.adapter
    /\ CloseOfPooled => rc.forcePassed = rc.force

\* the same for the tags written in lower case
C40_AdapterMatchesArgumentLowerCase ==
    /\ (GetInitializes /\ rc.type \in LowerCaseTags) => BackendOf(rc.arg) = rc.adapter
    /\ (CloseOfPooled /\ rc.obj.type \in LowerCaseTags) => rc.forcePassed = rc.force

\* the tag 'MySQL': the mysql adapter is initialized with a path
C40_MixedCaseTag ==
    /\ GetInitializes /\ rc.type = "MySQL"
    /\ rc.adapter = "mysql" /\ rc.arg = "path"

\* a connection made with the tag 'Postgres' is closed with force set and the
\* flag is not passed
C40_ForceDropped ==
    /\ CloseOfPooled /\ rc.obj.type = "Postgres"
    /\ rc.force /\ ~rc.forcePassed

\* the lower-case tags: a config for postgres, and the flag passed on close
C40_Reached ==
    /\ CloseOfPooled /\ rc.obj.type = "postgresql"
    /\ rc.force /\ rc.forcePassed

====
